---- MODULE Spec2Model ----
(***************************************************************************)
(* Model of the multi-platform normalisation engine (src/parsers/*.py) and *)
(* of its facade (src/parse_all.py).                                       *)
(*                                                                         *)
(* JSON values are tagged records [t, v]:                                  *)
(*   "dict"  v is a function from key strings to values                    *)
(*   "list"  v is a sequence of values                                     *)
(*   "str"   v is a string          "num"  v is an integer                 *)
(*   "bool"  v is a boolean         "null" Python's None                   *)
(*   "float" v names a float that no 32-bit integer can hold               *)
(*   "iso"   a str holding an ISO-8601 text, kept as its fields            *)
(*   "setlist" a list built from a set, kept as the set of its elements    *)
(*   "raise" an exception in flight (v names its type)                     *)
(***************************************************************************)
EXTENDS Integers, Sequences, FiniteSets, TLC

VARIABLES
    now,        \* the clock read by datetime.now()
    platform,   \* engine: the platform whose functions are called
    raw,        \* engine: the raw response passed in
    pc,         \* "start" before the call returns, "done" after
    call,       \* the function that returned
    out,        \* its result, or the exception it raised
    arg,        \* facade: the call and its arguments
    fs,         \* facade: the files, path -> parsed content or why not
    all_results, \* parse_all_examples: the mapping built so far, in
                \* insertion order, as <<platform, documents>> pairs
    cursor,     \* parse_all_examples: position in example_files
    trace       \* facade: files opened and parsers invoked, in order

vars == <<now, platform, raw, pc, call, out, arg, fs, all_results, cursor, trace>>

engineVars == <<now, platform, raw>>
facadeVars == <<arg, fs, all_results, cursor, trace>>

-----------------------------------------------------------------------------
(* Python values *)

Dict(f) == [t |-> "dict", v |-> f]
List(s) == [t |-> "list", v |-> s]
Str(s) == [t |-> "str", v |-> s]
Num(n) == [t |-> "num", v |-> n]
Bool(b) == [t |-> "bool", v |-> b]
Float(name) == [t |-> "float", v |-> name]
Null == [t |-> "null", v |-> 0]
Raise(e) == [t |-> "raise", v |-> e]
EmptyDict == Dict(<<>>)
EmptyList == List(<<>>)

IsRaise(x) == x.t = "raise"

\* x.get(k, d): only a mapping has .get; anything else is an AttributeError;
\* an exception already in flight stays in flight.
Get(x, k, d) ==
    IF IsRaise(x) THEN x
    ELSE IF x.t # "dict" THEN Raise("AttributeError")
    ELSE IF k \in DOMAIN x.v THEN x.v[k] ELSE d

\* x[k]
Item(x, k) ==
    IF IsRaise(x) THEN x
    ELSE IF x.t # "dict" THEN Raise("TypeError")
    ELSE IF k \in DOMAIN x.v THEN x.v[k] ELSE Raise("KeyError")

\* k in x, for a mapping x
HasKey(x, k) == x.t = "dict" /\ k \in DOMAIN x.v

\* bool(x)
Truthy(x) ==
    CASE x.t = "dict" -> DOMAIN x.v # {}
      [] x.t = "list" -> Len(x.v) > 0
      [] x.t = "str" -> x.v # ""
      [] x.t = "num" -> x.v # 0
      [] x.t = "bool" -> x.v
      [] x.t = "null" -> FALSE
      [] x.t = "setlist" -> x.v # {}
      [] OTHER -> TRUE

\* x == y for a string or integer literal y
PyEq(x, y) ==
    CASE x.t = "str" /\ y.t = "str" -> x.v = y.v
      [] x.t = "num" /\ y.t = "num" -> x.v = y.v
      [] x.t = "bool" /\ y.t = "num" -> (IF x.v THEN 1 ELSE 0) = y.v
      [] OTHER -> FALSE

RECURSIVE SetToSeq(_)
SetToSeq(S) ==
    IF S = {} THEN <<>>
    ELSE LET k == CHOOSE k \in S : TRUE IN <<k>> \o SetToSeq(S \ {k})

\* the characters of a string, each a str
Chars(s) == [i \in 1..Len(s) |-> Str(SubSeq(s, i, i))]

\* the list of the elements "for e in x" visits, or the TypeError of a
\* non-iterable
Iter(x) ==
    CASE x.t = "list" -> x
      [] x.t = "dict" -> List([i \in 1..Cardinality(DOMAIN x.v) |->
                                  Str(SetToSeq(DOMAIN x.v)[i])])
      [] x.t = "str" -> List(Chars(x.v))
      [] x.t = "raise" -> x
      [] OTHER -> Raise("TypeError")

-----------------------------------------------------------------------------
(* Python strings *)

\* sub in s
Contains(s, sub) ==
    \E i \in 1..(Len(s) - Len(sub) + 1) : SubSeq(s, i, i + Len(sub) - 1) = sub

DigitVal ==
    [c \in {"0", "1", "2", "3", "4", "5", "6", "7", "8", "9"} |->
        CASE c = "0" -> 0 [] c = "1" -> 1 [] c = "2" -> 2 [] c = "3" -> 3
          [] c = "4" -> 4 [] c = "5" -> 5 [] c = "6" -> 6 [] c = "7" -> 7
          [] c = "8" -> 8 [] c = "9" -> 9]

IsDigit(c) == c \in DOMAIN DigitVal

AllDigits(s) == Len(s) > 0 /\ \A i \in 1..Len(s) : IsDigit(SubSeq(s, i, i))

RECURSIVE ToIntUpTo(_, _)
ToIntUpTo(s, n) ==
    IF n = 0 THEN 0
    ELSE 10 * ToIntUpTo(s, n - 1) + DigitVal[SubSeq(s, n, n)]

\* int(s) for a string of digits
ToInt(s) == ToIntUpTo(s, Len(s))

\* int(re.findall(r'\d+', s)[0]): the first maximal run of digits, or the
\* IndexError of an empty match list
FirstNumber(s) ==
    LET starts == {i \in 1..Len(s) : IsDigit(SubSeq(s, i, i))}
    IN  IF starts = {} THEN Raise("IndexError")
        ELSE LET a == CHOOSE i \in starts : \A j \in starts : i <= j
                 ends == {j \in a..Len(s) :
                             /\ \A k \in a..j : IsDigit(SubSeq(s, k, k))
                             /\ (j = Len(s) \/ ~IsDigit(SubSeq(s, j + 1, j + 1)))}
                 b == CHOOSE j \in ends : TRUE
             IN  Num(ToInt(SubSeq(s, a, b)))

UpperLetters == "ABCDEFGHIJKLMNOPQRSTUVWXYZ"
LowerLetters == "abcdefghijklmnopqrstuvwxyz"

LowerChar(c) ==
    IF \E i \in 1..Len(UpperLetters) : SubSeq(UpperLetters, i, i) = c
    THEN LET i == CHOOSE i \in 1..Len(UpperLetters) : SubSeq(UpperLetters, i, i) = c
         IN  SubSeq(LowerLetters, i, i)
    ELSE c

RECURSIVE LowerFrom(_, _)
LowerFrom(s, i) ==
    IF i > Len(s) THEN ""
    ELSE LowerChar(SubSeq(s, i, i)) \o LowerFrom(s, i + 1)

\* s.lower()
Lower(s) == LowerFrom(s, 1)

\* the pieces of s from position start on, the scan being at position i
RECURSIVE SplitFrom(_, _, _, _)
SplitFrom(s, c, start, i) ==
    IF i > Len(s) THEN <<SubSeq(s, start, Len(s))>>
    ELSE IF SubSeq(s, i, i) = c
         THEN <<SubSeq(s, start, i - 1)>> \o SplitFrom(s, c, i + 1, i + 1)
         ELSE SplitFrom(s, c, start, i + 1)

\* s.split(c) for a one-character separator c
Split(s, c) == SplitFrom(s, c, 1, 1)

\* str(x)
PyStr(x) ==
    CASE x.t = "str" -> x
      [] x.t = "num" -> Str(ToString(x.v))
      [] x.t = "null" -> Str("None")
      [] x.t = "bool" -> Str(IF x.v THEN "True" ELSE "False")
      [] x.t = "raise" -> x
      [] OTHER -> Str("<repr>")

\* k in x
PyIn(k, x) ==
    CASE x.t = "dict" -> Bool(k \in DOMAIN x.v)
      [] x.t = "list" -> Bool(\E i \in 1..Len(x.v) : PyEq(x.v[i], Str(k)))
      [] x.t = "str" -> Bool(Contains(x.v, k))
      [] x.t = "raise" -> x
      [] OTHER -> Raise("TypeError")

\* f"{n:02d}"
Pad2(n) == IF n < 10 THEN "0" \o ToString(n) ELSE ToString(n)

-----------------------------------------------------------------------------
(* Time.  The clock and the in-range epoch values are seconds since 1970;  *)
(* local time is taken to be UTC.                                          *)

SecondsPerDay == 24 * 3600

\* proleptic Gregorian date of a day number (days since 1970-01-01)
CivilFromDays(days) ==
    LET z == days + 719468
        era == z \div 146097
        doe == z - era * 146097
        yoe == (doe - doe \div 1460 + doe \div 36524 - doe \div 146096) \div 365
        doy == doe - (365 * yoe + yoe \div 4 - yoe \div 100)
        mp == (5 * doy + 2) \div 153
        d == doy - (153 * mp + 2) \div 5 + 1
        m == IF mp < 10 THEN mp + 3 ELSE mp - 9
        y == yoe + era * 400 + (IF m <= 2 THEN 1 ELSE 0)
    IN  <<y, m, d>>

\* datetime.isoformat() of a naive datetime, as its fields
Iso(secs) ==
    LET days == secs \div SecondsPerDay
        rem == secs % SecondsPerDay
    IN  [t |-> "iso",
         v |-> CivilFromDays(days) \o
               <<rem \div 3600, (rem % 3600) \div 60, rem % 60, "">>]

\* datetime.now().isoformat()
NowIso == Iso(now)

\* isinstance(x, (int, float)); bool is a subclass of int
IsIntOrFloat(x) == x.t \in {"num", "float", "bool"}

\* x > 0 for an int or float x
GtZero(x) ==
    CASE x.t = "num" -> x.v > 0
      [] x.t = "bool" -> x.v
      [] x.t = "float" -> x.v \in {"1e20", "inf"}
      [] OTHER -> FALSE

\* datetime.fromtimestamp(x).isoformat(): every 32-bit integer is a date,
\* the floats of the model are out of range (1e20, -1e20, inf) or nan.
FromTimestampIso(x) ==
    CASE x.t = "num" -> Iso(x.v)
      [] x.t = "bool" -> Iso(IF x.v THEN 1 ELSE 0)
      [] x.t = "float" /\ x.v = "nan" -> Raise("ValueError")
      [] x.t = "float" /\ x.v # "nan" -> Raise("OverflowError")
      [] OTHER -> Raise("TypeError")

-----------------------------------------------------------------------------
(* Helpers shared by the document builders *)

\* a dict literal: an exception raised while evaluating one of its values
\* is raised by the whole expression
Build(f) ==
    IF \E k \in DOMAIN f : IsRaise(f[k])
    THEN Raise("Exception")
    ELSE Dict(f)

\* x + y on ints; any other operand type is a TypeError
PyAdd(x, y) ==
    IF IsRaise(x) THEN x
    ELSE IF IsRaise(y) THEN y
    ELSE IF x.t = "num" /\ y.t = "num" THEN Num(x.v + y.v)
    ELSE Raise("TypeError")

\* the "try: ... return document / except Exception: return None" frame
OrNone(doc) == IF IsRaise(doc) THEN Null ELSE doc

-----------------------------------------------------------------------------
(* Content enrichment: the helpers the five parser modules define under    *)
(* the same names.  A function that differs between the modules takes the  *)
(* platform p of its module as first parameter.                            *)

WordChars == LowerLetters \o UpperLetters \o "0123456789_"

\* c matches \w
IsWordChar(c) == \E i \in 1..Len(WordChars) : SubSeq(WordChars, i, i) = c

\* the last position of the run of \w characters that starts at position i
RECURSIVE WordEnd(_, _)
WordEnd(text, i) ==
    IF i < Len(text) /\ IsWordChar(SubSeq(text, i + 1, i + 1))
    THEN WordEnd(text, i + 1)
    ELSE i

\* re.findall(mark + r'(\w+)', text) from position i on: the groups of the
\* non-overlapping matches, left to right
RECURSIVE FindallFrom(_, _, _)
FindallFrom(text, mark, i) ==
    IF i >= Len(text) THEN <<>>
    ELSE IF SubSeq(text, i, i) = mark /\ IsWordChar(SubSeq(text, i + 1, i + 1))
         THEN <<Str(SubSeq(text, i + 1, WordEnd(text, i + 1)))>>
              \o FindallFrom(text, mark, WordEnd(text, i + 1) + 1)
         ELSE FindallFrom(text, mark, i + 1)

\* "if not text: return []" and then the scan
Findall(mark, text) ==
    IF IsRaise(text) THEN text
    ELSE IF ~Truthy(text) THEN EmptyList
    ELSE IF text.t # "str" THEN Raise("TypeError")
    ELSE List(FindallFrom(text.v, mark, 1))

\* facebook_parser.py 204-211, instagram_parser.py 275-282,
\* tiktok_parser.py 182-189, youtube_parser.py 264-271
extract_hashtags(text) == Findall("#", text)

\* facebook_parser.py 214-221, instagram_parser.py 285-292,
\* tiktok_parser.py 192-199, youtube_parser.py 274-281
extract_mentions(text) == Findall("@", text)

\* sum(1 for word in words if word in text_lower)
RECURSIVE CountIn(_, _, _)
CountIn(words, text_lower, i) ==
    IF i > Len(words) THEN 0
    ELSE (IF Contains(text_lower, words[i]) THEN 1 ELSE 0)
         + CountIn(words, text_lower, i + 1)

\* sum(1 for word in words if f' {word} ' in f' {text_lower} ')
RECURSIVE CountPadded(_, _, _)
CountPadded(words, text_lower, i) ==
    IF i > Len(words) THEN 0
    ELSE (IF Contains(" " \o text_lower \o " ", " " \o words[i] \o " ")
          THEN 1 ELSE 0)
         + CountPadded(words, text_lower, i + 1)

positive_words(p) ==
    CASE p = "twitter" ->
           <<"good", "great", "awesome", "amazing", "excellent", "happy", "love">>
      [] p = "facebook" ->
           <<"love", "amazing", "great", "awesome", "wonderful", "excellent",
             "happy", "good", "nice", "best", "perfect">>
      [] p = "instagram" ->
           <<"love", "amazing", "beautiful", "perfect", "awesome", "great",
             "happy", "good">>
      [] p = "tiktok" ->
           <<"love", "amazing", "fun", "cool", "awesome", "great", "happy",
             "good", "nice", "best">>
      [] p = "youtube" ->
           <<"great", "amazing", "awesome", "excellent", "fantastic",
             "wonderful", "love", "best", "perfect", "incredible">>

negative_words(p) ==
    CASE p = "twitter" ->
           <<"bad", "terrible", "awful", "hate", "angry", "sad", "disappointed">>
      [] p = "facebook" ->
           <<"hate", "terrible", "awful", "bad", "worst", "angry", "sad",
             "disappointed", "horrible", "annoying">>
      [] p = "instagram" ->
           <<"bad", "terrible", "awful", "hate", "angry", "sad",
             "disappointed", "worst">>
      [] p = "tiktok" ->
           <<"bad", "terrible", "awful", "hate", "angry", "sad",
             "disappointed", "worst", "boring">>
      [] p = "youtube" ->
           <<"terrible", "awful", "horrible", "worst", "hate", "bad",
             "disappointing", "failed", "disaster">>

\* the comparison with the two counts exchanged
SentimentOf_swapped(positive_count, negative_count) ==
    IF negative_count > positive_count THEN Str("positive")
    ELSE IF positive_count > negative_count THEN Str("negative")
    ELSE Str("neutral")

\* the comparison with ">=" in place of ">"
SentimentOf_geq(positive_count, negative_count) ==
    IF positive_count >= negative_count THEN Str("positive")
    ELSE IF negative_count >= positive_count THEN Str("negative")
    ELSE Str("neutral")

\* "if positive_count > negative_count: ... elif ...: ... else: 'neutral'"
SentimentOf(positive_count, negative_count) ==
    IF positive_count > negative_count THEN Str("positive")
    ELSE IF negative_count > positive_count THEN Str("negative")
    ELSE Str("neutral")

\* analyze_sentiment of the module of platform p; twitter's has no
\* "if not text: return 'neutral'"
analyze_sentiment(p, text) ==
    IF IsRaise(text) THEN text
    ELSE IF p # "twitter" /\ ~Truthy(text) THEN Str("neutral")
    ELSE IF text.t # "str" THEN Raise("AttributeError")
    ELSE SentimentOf(CountIn(positive_words(p), Lower(text.v), 1),
                     CountIn(negative_words(p), Lower(text.v), 1))

indonesian_words(p) ==
    CASE p = "facebook" ->
           <<"dan", "yang", "untuk", "dengan", "dari", "ini", "itu", "tidak",
             "ada", "saya", "kita", "mereka">>
      [] p = "tiktok" ->
           <<"dan", "yang", "untuk", "dengan", "dari", "ini", "itu", "tidak",
             "ada", "saya">>
      [] p = "youtube" ->
           <<"dan", "yang", "untuk", "dengan", "dari", "ini", "itu", "tidak",
             "ada", "saya", "video", "channel">>

english_words(p) ==
    CASE p = "facebook" ->
           <<"and", "the", "to", "of", "a", "in", "for", "is", "on", "that",
             "you", "it", "with", "as">>
      [] p = "tiktok" ->
           <<"and", "the", "to", "of", "a", "in", "for", "is", "on", "that">>
      [] p = "youtube" ->
           <<"and", "the", "to", "of", "a", "in", "for", "is", "on", "that",
             "video", "channel", "subscribe">>

\* the comparison answering 'en' on a tie
LanguageOf_tie_en(indonesian_count, english_count) ==
    IF indonesian_count > english_count THEN Str("id")
    ELSE Str("en")

\* "if indonesian_count > english_count: 'id' elif ...: 'en' else: 'mixed'"
LanguageOf(indonesian_count, english_count) ==
    IF indonesian_count > english_count THEN Str("id")
    ELSE IF english_count > indonesian_count THEN Str("en")
    ELSE Str("mixed")

\* the word count of detect_language: facebook looks for the word between
\* spaces, tiktok and youtube for the word anywhere
CountWords(p, words, text_lower) ==
    IF p = "facebook" THEN CountPadded(words, text_lower, 1)
    ELSE CountIn(words, text_lower, 1)

\* detect_language of the module of platform p (facebook, tiktok, youtube)
detect_language(p, text) ==
    IF IsRaise(text) THEN text
    ELSE IF ~Truthy(text) THEN Str("unknown")
    ELSE IF text.t # "str" THEN Raise("AttributeError")
    ELSE LanguageOf(CountWords(p, indonesian_words(p), Lower(text.v)),
                    CountWords(p, english_words(p), Lower(text.v)))

\* the categories dict of each determine_category, in insertion order, as
\* <<category, keywords>> pairs
categories(p) ==
    CASE p = "tiktok" ->
           << <<"dance", <<"dance", "dancing", "choreography", "moves",
                           "dancechallenge">> >>,
              <<"comedy", <<"funny", "comedy", "joke", "humor", "meme",
                            "viral", "hilarious">> >>,
              <<"education", <<"tutorial", "how", "learn", "education", "tips",
                               "diy", "howto">> >>,
              <<"lifestyle", <<"lifestyle", "daily", "routine", "life", "vlog",
                               "day">> >>,
              <<"food", <<"food", "cooking", "recipe", "eat", "delicious",
                          "foodie">> >>,
              <<"fashion", <<"fashion", "outfit", "style", "clothing", "ootd",
                             "fashiontok">> >>,
              <<"beauty", <<"beauty", "makeup", "skincare", "beautytips",
                            "cosmetics">> >>,
              <<"fitness", <<"fitness", "workout", "exercise", "gym", "health",
                             "fit">> >>,
              <<"music", <<"music", "singing", "song", "cover", "musician",
                           "musictok">> >>,
              <<"pets", <<"pet", "dog", "cat", "animal", "cute",
                          "petsoftiktok">> >>,
              <<"travel", <<"travel", "trip", "vacation", "explore",
                            "traveltok">> >>,
              <<"gaming", <<"gaming", "game", "gamer", "videogames",
                            "esports">> >> >>
      [] p = "youtube" ->
           << <<"music", <<"music", "song", "audio", "album", "artist", "band",
                           "cover", "acoustic", "lyric">> >>,
              <<"gaming", <<"gaming", "game", "gameplay", "playthrough",
                            "walkthrough", "review", "trailer">> >>,
              <<"education", <<"tutorial", "how to", "learn", "education",
                               "course", "lesson", "guide", "tips">> >>,
              <<"entertainment", <<"comedy", "funny", "humor", "entertainment",
                                   "show", "movie", "film">> >>,
              <<"vlog", <<"vlog", "daily", "life", "routine", "day in the life",
                          "personal">> >>,
              <<"news", <<"news", "breaking", "report", "update",
                          "current events", "politics">> >>,
              <<"sports", <<"sports", "football", "basketball", "soccer",
                            "olympics", "match", "game">> >>,
              <<"technology", <<"tech", "technology", "review", "unboxing",
                                "gadget", "smartphone", "computer">> >>,
              <<"cooking", <<"cooking", "recipe", "food", "kitchen", "chef",
                             "baking", "meal">> >>,
              <<"travel", <<"travel", "trip", "vacation", "tour", "destination",
                            "adventure">> >>,
              <<"fashion", <<"fashion", "style", "outfit", "clothing", "beauty",
                             "makeup">> >>,
              <<"fitness", <<"fitness", "workout", "exercise", "health", "gym",
                             "training">> >>,
              <<"diy", <<"diy", "craft", "handmade", "build", "create",
                         "project">> >>,
              <<"podcast", <<"podcast", "interview", "discussion", "talk",
                             "conversation">> >> >>

\* any(keyword in hashtags_lower for keyword in keywords)
AnyInList(keywords, hashtags_lower) ==
    \E k \in 1..Len(keywords) : \E j \in 1..Len(hashtags_lower) :
        hashtags_lower[j] = keywords[k]

\* any(keyword in text_lower for keyword in keywords)
AnyInText(keywords, text_lower) ==
    \E k \in 1..Len(keywords) : Contains(text_lower, keywords[k])

\* "for category, keywords in categories.items(): if any(keyword in
\* hashtags_lower ...): return category"; None when the loop ends
RECURSIVE CategoryByHashtags(_, _, _)
CategoryByHashtags(cats, hashtags_lower, i) ==
    IF i > Len(cats) THEN Null
    ELSE IF AnyInList(cats[i][2], hashtags_lower) THEN Str(cats[i][1])
    ELSE CategoryByHashtags(cats, hashtags_lower, i + 1)

\* the same loop over the text
RECURSIVE CategoryByText(_, _, _)
CategoryByText(cats, text_lower, i) ==
    IF i > Len(cats) THEN Null
    ELSE IF AnyInText(cats[i][2], text_lower) THEN Str(cats[i][1])
    ELSE CategoryByText(cats, text_lower, i + 1)

\* [tag.lower() for tag in hashtags], for a list of strings
LowerAll(hashtags) == [j \in 1..Len(hashtags) |-> Lower(hashtags[j].v)]

\* the last lines of tiktok's determine_category without the music check
MusicOrGeneral_general(music_info) == Str("general")

\* "if music_info.get('original', False): return 'music' / return 'general'"
MusicOrGeneral(music_info) ==
    IF IsRaise(Get(music_info, "original", Bool(FALSE)))
    THEN Get(music_info, "original", Bool(FALSE))
    ELSE IF Truthy(Get(music_info, "original", Bool(FALSE))) THEN Str("music")
    ELSE Str("general")

\* the two loops in the other order
TiktokCategory_text_first(by_hashtags, by_text, music_info) ==
    IF by_text # Null THEN by_text
    ELSE IF by_hashtags # Null THEN by_hashtags
    ELSE MusicOrGeneral(music_info)

\* the two loops and what follows them
TiktokCategory(by_hashtags, by_text, music_info) ==
    IF by_hashtags # Null THEN by_hashtags
    ELSE IF by_text # Null THEN by_text
    ELSE MusicOrGeneral(music_info)

tiktok_determine_category(desc, hashtags, music_info) ==
    IF IsRaise(desc) THEN desc
    ELSE IF desc.t # "str" THEN Raise("AttributeError")
    ELSE IF IsRaise(hashtags) THEN hashtags
    ELSE TiktokCategory(
             CategoryByHashtags(categories("tiktok"), LowerAll(hashtags.v), 1),
             CategoryByText(categories("tiktok"), Lower(desc.v), 1),
             music_info)

\* f"{title} {description}"
FullContent(title, description) ==
    IF IsRaise(title) THEN title
    ELSE IF IsRaise(description) THEN description
    ELSE Str(PyStr(title).v \o " " \o PyStr(description).v)

\* "return category" of the loop, or "return 'general'" after it
OrGeneral(by_text) == IF by_text # Null THEN by_text ELSE Str("general")

youtube_determine_category(title, description) ==
    IF IsRaise(FullContent(title, description))
    THEN FullContent(title, description)
    ELSE OrGeneral(CategoryByText(categories("youtube"),
                                  Lower(FullContent(title, description).v), 1))

\* the emotion_keywords dict of each detect_emotions, in insertion order, as
\* <<emotion, keywords>> pairs (the emoji keywords of instagram and tiktok
\* are left out: no text drawn holds an emoji)
emotion_keywords(p) ==
    CASE p = "facebook" ->
           << <<"joy", <<"happy", "joy", "excited", "amazing", "wonderful",
                         "celebrate">> >>,
              <<"love", <<"love", "heart", "adore", "beautiful", "sweet">> >>,
              <<"anger", <<"angry", "mad", "furious", "annoyed",
                           "frustrated">> >>,
              <<"sadness", <<"sad", "depressed", "crying", "disappointed",
                             "heartbroken">> >>,
              <<"surprise", <<"wow", "amazing", "surprised", "unbelievable",
                              "shocking">> >>,
              <<"fear", <<"scared", "afraid", "worried", "anxious",
                          "terrified">> >>,
              <<"humor", <<"funny", "hilarious", "joke", "comedy", "lol",
                           "haha">> >> >>
      [] p = "instagram" ->
           << <<"joy", <<"happy", "joy", "excited", "amazing", "wonderful",
                         "love">> >>,
              <<"love", <<"love", "heart", "adore", "crush">> >>,
              <<"excitement", <<"excited", "wow", "amazing", "incredible",
                                "awesome">> >>,
              <<"gratitude", <<"thank", "grateful", "blessed",
                               "appreciate">> >>,
              <<"inspiration", <<"inspired", "motivation", "goals",
                                 "dream">> >> >>
      [] p = "tiktok" ->
           << <<"joy", <<"happy", "joy", "fun", "excited", "amazing",
                         "wonderful", "laugh">> >>,
              <<"love", <<"love", "heart", "adore", "crush">> >>,
              <<"excitement", <<"excited", "wow", "amazing", "incredible",
                                "awesome", "omg">> >>,
              <<"humor", <<"funny", "lol", "haha", "hilarious", "joke",
                           "comedy">> >>,
              <<"inspiration", <<"inspired", "motivation", "goals", "dream",
                                 "believe">> >>,
              <<"creativity", <<"creative", "art", "design", "diy",
                                "tutorial">> >>,
              <<"energy", <<"energy", "power", "strong", "fierce",
                            "bold">> >> >>
      [] p = "youtube" ->
           << <<"excitement", <<"excited", "amazing", "incredible", "awesome",
                                "wow">> >>,
              <<"joy", <<"happy", "joy", "fun", "cheerful", "delighted">> >>,
              <<"love", <<"love", "adore", "beautiful", "gorgeous",
                          "wonderful">> >>,
              <<"curiosity", <<"discover", "explore", "learn", "find out",
                               "reveal">> >>,
              <<"inspiration", <<"inspired", "motivate", "achieve", "success",
                                 "dream">> >>,
              <<"humor", <<"funny", "hilarious", "comedy", "joke",
                           "laugh">> >>,
              <<"surprise", <<"surprise", "unexpected", "shocking",
                              "unbelievable">> >>,
              <<"nostalgia", <<"memories", "nostalgic", "remember",
                               "throwback", "classic">> >> >>
      [] p = "twitter" ->
           << <<"joy", <<"happy", "joy", "excited", "amazing",
                         "wonderful">> >>,
              <<"anger", <<"angry", "mad", "furious", "annoyed", "hate">> >>,
              <<"sadness", <<"sad", "depressed", "crying",
                             "disappointed">> >>,
              <<"fear", <<"scared", "afraid", "worried", "anxious">> >>,
              <<"surprise", <<"wow", "amazing", "surprised",
                              "unbelievable">> >>,
              <<"love", <<"love", "heart", "adore", "crush">> >> >>

\* "for emotion, keywords in emotion_keywords.items(): if any(keyword in
\* text_lower ...): emotions.append(emotion)"
RECURSIVE KeywordEmotions(_, _, _)
KeywordEmotions(kws, text_lower, i) ==
    IF i > Len(kws) THEN <<>>
    ELSE (IF AnyInText(kws[i][2], text_lower) THEN <<kws[i][1]>> ELSE <<>>)
         \o KeywordEmotions(kws, text_lower, i + 1)

\* detect_emotions(text) of the module of platform p (instagram, tiktok,
\* youtube, twitter): twitter has no "if not text" guard
detect_emotions(p, text) ==
    IF IsRaise(text) THEN text
    ELSE IF p # "twitter" /\ ~Truthy(text) THEN EmptyList
    ELSE IF text.t # "str" THEN Raise("AttributeError")
    ELSE List([i \in 1..Len(KeywordEmotions(emotion_keywords(p),
                                            Lower(text.v), 1)) |->
                  Str(KeywordEmotions(emotion_keywords(p), Lower(text.v), 1)[i])])

\* list(set(emotions)): a list of the members of the set, in the iteration
\* order of a set of str, which changes from one run of the interpreter to
\* the next; the value is kept as the set itself
SetList(S) == [t |-> "setlist", v |-> S]

\* the "if text:" block of the facebook detect_emotions
TextEmotions(text) ==
    IF ~Truthy(text) THEN <<>>
    ELSE KeywordEmotions(emotion_keywords("facebook"), Lower(text.v), 1)

\* sum(reactions.values()) over the keys not yet added; the counts are ints
\* (a bool counts as 0 or 1), and a str or None count is a TypeError
RECURSIVE SumValues(_, _)
SumValues(reactions, keys) ==
    IF keys = {} THEN Num(0)
    ELSE LET k == CHOOSE k \in keys : TRUE
             x == reactions.v[k]
         IN  CASE x.t = "num" -> PyAdd(x, SumValues(reactions, keys \ {k}))
               [] x.t = "bool" -> PyAdd(Num(IF x.v THEN 1 ELSE 0),
                                        SumValues(reactions, keys \ {k}))
               [] OTHER -> Raise("TypeError")

\* reactions.get(k, 0) / total_reactions > num / den for the thresholds
\* 0.3 = 3/10 and 0.2 = 2/10: with counts of this size the float quotient is
\* above the float threshold exactly when the fraction is above it
ShareAbove_geq(reactions, k, total_reactions, num, den) ==
    Get(reactions, k, Num(0)).v * den >= num * total_reactions

ShareAbove(reactions, k, total_reactions, num, den) ==
    Get(reactions, k, Num(0)).v * den > num * total_reactions

\* the five "if reactions.get(...) / total_reactions > ...: append" statements
ReactionAppends(reactions, total_reactions) ==
    (IF ShareAbove(reactions, "love", total_reactions, 3, 10)
     THEN <<"love">> ELSE <<>>)
    \o (IF ShareAbove(reactions, "haha", total_reactions, 3, 10)
        THEN <<"humor">> ELSE <<>>)
    \o (IF ShareAbove(reactions, "angry", total_reactions, 2, 10)
        THEN <<"anger">> ELSE <<>>)
    \o (IF ShareAbove(reactions, "sad", total_reactions, 2, 10)
        THEN <<"sadness">> ELSE <<>>)
    \o (IF ShareAbove(reactions, "wow", total_reactions, 3, 10)
        THEN <<"surprise">> ELSE <<>>)

\* the "if reactions:" block of the facebook detect_emotions: the emotions
\* appended, or the exception raised
ReactionEmotions(reactions) ==
    IF ~Truthy(reactions) THEN List(<<>>)
    ELSE IF reactions.t # "dict" THEN Raise("AttributeError")
    ELSE LET total_reactions == SumValues(reactions, DOMAIN reactions.v)
         IN  IF IsRaise(total_reactions) THEN total_reactions
             ELSE IF total_reactions.v > 0
                  THEN List(ReactionAppends(reactions, total_reactions.v))
                  ELSE List(<<>>)

\* emotions after both blocks, duplicates removed
EmotionsOf(from_text, from_reactions) ==
    SetList({Str(from_text[i]) : i \in 1..Len(from_text)}
            \cup {Str(from_reactions[i]) : i \in 1..Len(from_reactions)})

facebook_detect_emotions(text, reactions) ==
    IF IsRaise(text) THEN text
    ELSE IF IsRaise(reactions) THEN reactions
    ELSE IF Truthy(text) /\ text.t # "str" THEN Raise("AttributeError")
    ELSE IF IsRaise(ReactionEmotions(reactions)) THEN ReactionEmotions(reactions)
    ELSE EmotionsOf(TextEmotions(text), ReactionEmotions(reactions).v)

-----------------------------------------------------------------------------
(* src/parsers/facebook_parser.py *)

RECURSIVE ExtractPostsLoop(_, _, _)
ExtractPostsLoop(results, i, posts) ==
    IF i > Len(results) THEN posts
    ELSE LET post == results[i]
             type == Get(post, "type", Null)
         IN  IF IsRaise(type) THEN posts
             ELSE IF PyEq(type, Str("post"))
                  THEN ExtractPostsLoop(results, i + 1, Append(posts, post))
                  ELSE ExtractPostsLoop(results, i + 1, posts)

extract_posts_from_data(data) ==
    LET results == Iter(Get(Get(data, "data", EmptyDict), "results", EmptyList))
    IN  IF IsRaise(results) THEN EmptyList
        ELSE List(ExtractPostsLoop(results.v, 1, <<>>))

\* the chain with the image test moved to the front
determine_post_type_image_first(post) ==
    IF Truthy(Get(post, "image", Null)) THEN Str("image")
    ELSE IF Truthy(Get(post, "video", Null)) THEN Str("video")
    ELSE IF Truthy(Get(post, "video_files", Null)) THEN Str("video")
    ELSE IF Truthy(Get(post, "album_preview", Null)) THEN Str("album")
    ELSE IF Truthy(Get(post, "external_url", Null)) THEN Str("link")
    ELSE IF Truthy(Get(post, "attached_post", Null)) THEN Str("shared_post")
    ELSE IF Truthy(Get(post, "attached_event", Null)) THEN Str("event")
    ELSE Str("text")

determine_post_type(post) ==
    IF Truthy(Get(post, "video", Null)) THEN Str("video")
    ELSE IF Truthy(Get(post, "video_files", Null)) THEN Str("video")
    ELSE IF Truthy(Get(post, "image", Null)) THEN Str("image")
    ELSE IF Truthy(Get(post, "album_preview", Null)) THEN Str("album")
    ELSE IF Truthy(Get(post, "external_url", Null)) THEN Str("link")
    ELSE IF Truthy(Get(post, "attached_post", Null)) THEN Str("shared_post")
    ELSE IF Truthy(Get(post, "attached_event", Null)) THEN Str("event")
    ELSE Str("text")

FacebookTimestamp(timestamp_unix) ==
    IF IsIntOrFloat(timestamp_unix) /\ GtZero(timestamp_unix)
    THEN FromTimestampIso(timestamp_unix)
    ELSE NowIso

create_post_document(post) ==
    LET message == Get(post, "message", Str(""))
        timestamp_unix == Get(post, "timestamp", Num(0))
        author == Get(post, "author", EmptyDict)
        user_info == Build([id |-> Get(author, "id", Str("")),
                            name |-> Get(author, "name", Str(""))])
        reactions == Get(post, "reactions", EmptyDict)
        metrics == Build([reactions_count |-> Get(post, "reactions_count", Num(0)),
                          comments_count |-> Get(post, "comments_count", Num(0)),
                          shares_count |-> Get(post, "reshare_count", Num(0)),
                          like_count |-> Get(reactions, "like", Num(0)),
                          love_count |-> Get(reactions, "love", Num(0))])
        total_engagements ==
            IF IsRaise(metrics) THEN metrics
            ELSE PyAdd(PyAdd(metrics.v.reactions_count, metrics.v.comments_count),
                       metrics.v.shares_count)
    IN  OrNone(IF post.t # "dict" THEN Raise("AttributeError")
               ELSE Build([platform |-> Str("facebook"),
                           platform_id |-> Get(post, "post_id", Str("")),
                           content |-> message,
                           author |-> user_info,
                           timestamp |-> FacebookTimestamp(timestamp_unix),
                           created_timestamp |-> timestamp_unix,
                           metrics |-> metrics,
                           total_engagements |-> total_engagements,
                           hashtags |-> extract_hashtags(message),
                           mentions |-> extract_mentions(message),
                           post_type |-> determine_post_type(post),
                           sentiment |-> analyze_sentiment("facebook", message),
                           emotions |-> facebook_detect_emotions(message, reactions),
                           language |-> detect_language("facebook", message),
                           raw_data |-> post]))

\* the loop leaving at the first post that gives no document
RECURSIVE ParseFacebookLoop_abort(_, _, _)
ParseFacebookLoop_abort(posts, i, documents) ==
    IF i > Len(posts) THEN documents
    ELSE LET doc == create_post_document(posts[i])
         IN  IF Truthy(doc)
             THEN ParseFacebookLoop_abort(posts, i + 1, Append(documents, doc))
             ELSE documents

RECURSIVE ParseFacebookLoop(_, _, _)
ParseFacebookLoop(posts, i, documents) ==
    IF i > Len(posts) THEN documents
    ELSE LET doc == create_post_document(posts[i])
         IN  ParseFacebookLoop(posts, i + 1,
                 IF Truthy(doc) THEN Append(documents, doc) ELSE documents)

parse_facebook_json(data) ==
    LET posts == Iter(extract_posts_from_data(data))
    IN  IF IsRaise(posts) THEN posts
        ELSE List(ParseFacebookLoop(posts.v, 1, <<>>))

-----------------------------------------------------------------------------
(* src/parsers/youtube_parser.py *)

RECURSIVE YoutubeExtractLoop(_, _, _)
YoutubeExtractLoop(contents, i, videos) ==
    IF i > Len(contents) THEN videos
    ELSE LET content == contents[i]
             type == Get(content, "type", Null)
             video == Get(content, "video", EmptyDict)
         IN  IF IsRaise(type) THEN videos
             ELSE IF PyEq(type, Str("video")) /\ Truthy(video)
                  THEN YoutubeExtractLoop(contents, i + 1, Append(videos, video))
                  ELSE YoutubeExtractLoop(contents, i + 1, videos)

youtube_extract_videos_from_data(data) ==
    LET contents == Iter(Get(Get(data, "data", EmptyDict), "contents", EmptyList))
    IN  IF IsRaise(contents) THEN EmptyList
        ELSE List(YoutubeExtractLoop(contents.v, 1, <<>>))

extract_video_id(video) ==
    LET video_id == Get(video, "videoId", Str(""))
        watch_endpoint == Get(Get(video, "navigationEndpoint", EmptyDict),
                              "watchEndpoint", EmptyDict)
        nav_id == Get(watch_endpoint, "videoId", Str(""))
        link == Get(video, "link", Str(""))
        has == PyIn("watch?v=", link)
    IN  IF IsRaise(video_id) \/ Truthy(video_id) THEN video_id
        ELSE IF IsRaise(nav_id) \/ Truthy(nav_id) THEN nav_id
        ELSE IF IsRaise(has) THEN has
        ELSE IF has.v /\ link.t = "str"
             THEN LET i == CHOOSE i \in 1..Len(link.v) :
                               /\ SubSeq(link.v, i, i + 7) = "watch?v="
                               /\ \A j \in 1..(i - 1) :
                                      SubSeq(link.v, j, j + 7) # "watch?v="
                      rest == SubSeq(link.v, i + 8, Len(link.v))
                  IN  Str(Split(rest, "&")[1])
             ELSE nav_id

\* the hours dropped from the text of a long video
format_duration_no_hours(seconds) ==
    IF seconds.t # "num" THEN Raise("TypeError")
    ELSE IF seconds.v = 0 THEN Str("00:00")
    ELSE Str(Pad2((seconds.v % 3600) \div 60) \o ":" \o Pad2(seconds.v % 60))

format_duration(seconds) ==
    IF seconds.t # "num" THEN Raise("TypeError")
    ELSE IF seconds.v = 0 THEN Str("00:00")
    ELSE LET hours == seconds.v \div 3600
             minutes == (seconds.v % 3600) \div 60
             secs == seconds.v % 60
         IN  IF hours > 0
             THEN Str(Pad2(hours) \o ":" \o Pad2(minutes) \o ":" \o Pad2(secs))
             ELSE Str(Pad2(minutes) \o ":" \o Pad2(secs))

\* datetime.timedelta(...): the module binds the name datetime to the class
\* (from datetime import datetime), which has no attribute timedelta
Timedelta(seconds) == Raise("AttributeError")

\* now - Timedelta(n * unit), or the exception of either operand
AgoIso(n, unit) ==
    IF IsRaise(n) THEN n
    ELSE LET delta == Timedelta(n.v * unit)
         IN  IF IsRaise(delta) THEN delta ELSE Iso(now - delta.v)

parse_youtube_timestamp(published_time_text) ==
    LET text == published_time_text
        n == FirstNumber(text.v)
        timestamp ==
            IF text.t # "str" THEN Raise("TypeError")
            ELSE IF Contains(text.v, "day") THEN AgoIso(n, SecondsPerDay)
            ELSE IF Contains(text.v, "week") THEN AgoIso(n, 7 * SecondsPerDay)
            ELSE IF Contains(text.v, "month") THEN
                AgoIso(IF IsRaise(n) THEN n ELSE Num(n.v * 30), SecondsPerDay)
            ELSE IF Contains(text.v, "year") THEN
                AgoIso(IF IsRaise(n) THEN n ELSE Num(n.v * 365), SecondsPerDay)
            ELSE IF Contains(text.v, "hour") THEN AgoIso(n, 3600)
            ELSE IF Contains(text.v, "minute") THEN AgoIso(n, 60)
            ELSE NowIso
    IN  IF ~Truthy(text) THEN NowIso
        ELSE IF IsRaise(timestamp) THEN NowIso
        ELSE timestamp

youtube_create_video_document(video) ==
    LET author == Get(video, "author", EmptyDict)
        channel_info == Build([id |-> Get(author, "channelId", Str("")),
                               title |-> Get(author, "title", Str(""))])
        stats == Get(video, "stats", EmptyDict)
        metrics == Build([view_count |-> Get(stats, "views", Num(0))])
        duration_seconds == Get(video, "lengthSeconds", Num(0))
        published_time == Get(video, "publishedTimeText", Str(""))
        title == Get(video, "title", Str(""))
        description == Get(video, "descriptionSnippet", Str(""))
        full_content == FullContent(title, description)
    IN  OrNone(IF video.t # "dict" THEN Raise("AttributeError")
               ELSE Build([platform |-> Str("youtube"),
                           platform_id |-> extract_video_id(video),
                           content |-> full_content,
                           title |-> title,
                           description |-> description,
                           author |-> channel_info,
                           timestamp |-> parse_youtube_timestamp(published_time),
                           published_time_text |-> published_time,
                           metrics |-> metrics,
                           duration_seconds |-> duration_seconds,
                           duration_formatted |-> format_duration(duration_seconds),
                           hashtags |-> extract_hashtags(description),
                           mentions |-> extract_mentions(description),
                           sentiment |-> analyze_sentiment("youtube", full_content),
                           emotions |-> detect_emotions("youtube", full_content),
                           category |-> youtube_determine_category(title, description),
                           language |-> detect_language("youtube", full_content),
                           content_type |-> Str("video"),
                           raw_data |-> video]))

RECURSIVE ParseYoutubeLoop(_, _, _)
ParseYoutubeLoop(videos, i, documents) ==
    IF i > Len(videos) THEN documents
    ELSE LET doc == youtube_create_video_document(videos[i])
         IN  ParseYoutubeLoop(videos, i + 1,
                 IF Truthy(doc) THEN Append(documents, doc) ELSE documents)

parse_youtube_json(data) ==
    LET videos == Iter(youtube_extract_videos_from_data(data))
    IN  IF IsRaise(videos) THEN videos
        ELSE List(ParseYoutubeLoop(videos.v, 1, <<>>))

-----------------------------------------------------------------------------
(* src/parsers/tiktok_parser.py *)

RECURSIVE TiktokExtractLoop(_, _, _)
TiktokExtractLoop(data_array, i, videos) ==
    IF i > Len(data_array) THEN videos
    ELSE LET item == data_array[i]
             type == Get(item, "type", Null)
             video_item == Get(item, "item", EmptyDict)
         IN  IF IsRaise(type) THEN videos
             ELSE IF PyEq(type, Num(1)) /\ Truthy(video_item)
                  THEN TiktokExtractLoop(data_array, i + 1, Append(videos, video_item))
                  ELSE TiktokExtractLoop(data_array, i + 1, videos)

tiktok_extract_videos_from_data(data) ==
    LET data_array == Iter(Get(Get(data, "data", EmptyDict), "data", EmptyList))
    IN  IF IsRaise(data_array) THEN EmptyList
        ELSE List(TiktokExtractLoop(data_array.v, 1, <<>>))

TiktokTimestamp(create_time) ==
    IF IsIntOrFloat(create_time) /\ GtZero(create_time)
    THEN FromTimestampIso(create_time)
    ELSE NowIso

tiktok_create_video_document(video) ==
    LET video_id == Get(video, "id", Str(""))
        desc == Get(video, "desc", Str(""))
        create_time == Get(video, "createTime", Num(0))
        author == Get(video, "author", EmptyDict)
        user_info == Build([id |-> Get(author, "id", Str("")),
                            username |-> Get(author, "uniqueId", Str(""))])
        stats == Get(video, "stats", EmptyDict)
        metrics == Build([view_count |-> Get(stats, "playCount", Num(0)),
                          like_count |-> Get(stats, "diggCount", Num(0)),
                          comment_count |-> Get(stats, "commentCount", Num(0)),
                          share_count |-> Get(stats, "shareCount", Num(0))])
        total_engagements ==
            IF IsRaise(metrics) THEN metrics
            ELSE PyAdd(PyAdd(metrics.v.like_count, metrics.v.comment_count),
                       metrics.v.share_count)
        music == Get(video, "music", EmptyDict)
        music_info == Build([id |-> Get(music, "id", Str("")),
                             title |-> Get(music, "title", Str("")),
                             original |-> Get(music, "original", Bool(FALSE))])
        source == Build([platform |-> Str("tiktok"),
                         platform_id |-> video_id,
                         content |-> desc,
                         author |-> user_info,
                         timestamp |-> TiktokTimestamp(create_time),
                         created_time |-> create_time,
                         metrics |-> metrics,
                         total_engagements |-> total_engagements,
                         music_info |-> music_info,
                         hashtags |-> extract_hashtags(desc),
                         mentions |-> extract_mentions(desc),
                         sentiment |-> analyze_sentiment("tiktok", desc),
                         emotions |-> detect_emotions("tiktok", desc),
                         category |-> tiktok_determine_category(
                                          desc, extract_hashtags(desc), music_info),
                         language |-> detect_language("tiktok", desc),
                         raw_data |-> video])
    IN  OrNone(IF video.t # "dict" THEN Raise("AttributeError")
               ELSE Build(("_index" :> Str("social_media_posts")) @@
                          ("_source" :> source)))

RECURSIVE ParseTiktokLoop(_, _, _)
ParseTiktokLoop(videos, i, documents) ==
    IF i > Len(videos) THEN documents
    ELSE LET doc == tiktok_create_video_document(videos[i])
         IN  ParseTiktokLoop(videos, i + 1,
                 IF Truthy(doc) THEN Append(documents, doc) ELSE documents)

parse_tiktok_json(data) ==
    LET videos == Iter(tiktok_extract_videos_from_data(data))
    IN  IF IsRaise(videos) THEN videos
        ELSE List(ParseTiktokLoop(videos.v, 1, <<>>))

-----------------------------------------------------------------------------
(* src/parsers/instagram_parser.py *)

\* "for item in items: media = item.get('media', {}); if media: append";
\* st is [items: the media collected so far, raised: an exception left the loop]
RECURSIVE GridItemsLoop(_, _, _)
GridItemsLoop(items, i, st) ==
    IF i > Len(items) THEN st
    ELSE LET media == Get(items[i], "media", EmptyDict)
         IN  IF IsRaise(media) THEN [st EXCEPT !.raised = TRUE]
             ELSE GridItemsLoop(items, i + 1,
                      IF Truthy(media)
                      THEN [st EXCEPT !.items = Append(@, media)]
                      ELSE st)

\* the iteration with the medias branch tested first
GridSection_medias_first(section, st) ==
    LET layout_content == Get(section, "layout_content", EmptyDict)
        has1 == PyIn("one_by_two_item", layout_content)
        has2 == PyIn("two_by_two_items", layout_content)
        has3 == PyIn("medias", layout_content)
        clips_items == Iter(Get(Get(Item(layout_content, "one_by_two_item"),
                                    "clips", EmptyDict), "items", EmptyList))
        two_by_two == Iter(Item(layout_content, "two_by_two_items"))
        medias == Iter(Item(layout_content, "medias"))
        failed == [st EXCEPT !.raised = TRUE]
    IN  IF IsRaise(has3) THEN failed
        ELSE IF has3.v THEN
            IF IsRaise(medias) THEN failed
            ELSE [st EXCEPT !.items = @ \o medias.v]
        ELSE IF has1.v THEN
            IF IsRaise(clips_items) THEN failed
            ELSE GridItemsLoop(clips_items.v, 1, st)
        ELSE IF has2.v THEN
            IF IsRaise(two_by_two) THEN failed
            ELSE GridItemsLoop(two_by_two.v, 1, st)
        ELSE st

\* one iteration of "for section in sections"
GridSection(section, st) ==
    LET layout_content == Get(section, "layout_content", EmptyDict)
        has1 == PyIn("one_by_two_item", layout_content)
        has2 == PyIn("two_by_two_items", layout_content)
        has3 == PyIn("medias", layout_content)
        clips_items == Iter(Get(Get(Item(layout_content, "one_by_two_item"),
                                    "clips", EmptyDict), "items", EmptyList))
        two_by_two == Iter(Item(layout_content, "two_by_two_items"))
        medias == Iter(Item(layout_content, "medias"))
        failed == [st EXCEPT !.raised = TRUE]
    IN  IF IsRaise(has1) THEN failed
        ELSE IF has1.v THEN
            IF IsRaise(clips_items) THEN failed
            ELSE GridItemsLoop(clips_items.v, 1, st)
        ELSE IF has2.v THEN
            IF IsRaise(two_by_two) THEN failed
            ELSE GridItemsLoop(two_by_two.v, 1, st)
        ELSE IF has3.v THEN
            IF IsRaise(medias) THEN failed
            ELSE [st EXCEPT !.items = @ \o medias.v]
        ELSE st

RECURSIVE GridSectionsLoop(_, _, _)
GridSectionsLoop(sections, i, st) ==
    IF i > Len(sections) \/ st.raised THEN st
    ELSE GridSectionsLoop(sections, i + 1, GridSection(sections[i], st))

\* the except branch returning None instead of the list collected so far
extract_media_from_grid_none(data) ==
    LET media_grid == Get(Get(data, "data", EmptyDict), "media_grid", EmptyDict)
        sections == Iter(Get(media_grid, "sections", EmptyList))
        st == GridSectionsLoop(sections.v, 1, [items |-> <<>>, raised |-> FALSE])
    IN  IF IsRaise(sections) THEN Null
        ELSE IF st.raised THEN Null
        ELSE List(st.items)

extract_media_from_grid(data) ==
    LET media_grid == Get(Get(data, "data", EmptyDict), "media_grid", EmptyDict)
        sections == Iter(Get(media_grid, "sections", EmptyList))
    IN  IF IsRaise(sections) THEN EmptyList
        ELSE List(GridSectionsLoop(sections.v, 1,
                                   [items |-> <<>>, raised |-> FALSE]).items)

extract_caption(media) ==
    IF HasKey(media, "caption") THEN
        LET caption_obj == media.v["caption"]
        IN  IF caption_obj.t = "dict" THEN Get(caption_obj, "text", Str(""))
            ELSE IF Truthy(caption_obj) THEN PyStr(caption_obj) ELSE Str("")
    ELSE IF HasKey(media, "edge_media_to_caption") THEN
        LET edges == Get(media.v["edge_media_to_caption"], "edges", EmptyList)
        IN  IF IsRaise(edges) THEN edges
            ELSE IF ~Truthy(edges) THEN Str("")
            ELSE IF edges.t # "list" THEN Raise("TypeError")
            ELSE Get(Get(edges.v[1], "node", EmptyDict), "text", Str(""))
    ELSE IF HasKey(media, "accessibility_caption")
         THEN media.v["accessibility_caption"]
    ELSE Str("")

InstagramTimestamp(taken_at) ==
    IF IsIntOrFloat(taken_at)
    THEN FromTimestampIso(taken_at)
    ELSE NowIso

create_media_document(media) ==
    LET media_id == Get(media, "id", Get(media, "pk", Str("")))
        caption == extract_caption(media)
        user0 == Get(media, "user", EmptyDict)
        user == IF IsRaise(user0) \/ Truthy(user0) THEN user0
                ELSE Get(media, "owner", EmptyDict)
        user_info == Build([id |-> PyStr(Get(user, "pk", Get(user, "id", Str("")))),
                            username |-> Get(user, "username", Str(""))])
        taken_at == Get(media, "taken_at", Get(media, "device_timestamp", Num(0)))
        metrics == Build([like_count |-> Get(media, "like_count", Num(0)),
                          comment_count |-> Get(media, "comment_count", Num(0))])
    IN  OrNone(IF media.t # "dict" THEN Raise("AttributeError")
               ELSE Build([platform |-> Str("instagram"),
                           platform_id |-> PyStr(media_id),
                           content |-> caption,
                           author |-> user_info,
                           timestamp |-> InstagramTimestamp(taken_at),
                           metrics |-> metrics,
                           hashtags |-> extract_hashtags(caption),
                           mentions |-> extract_mentions(caption),
                           sentiment |-> analyze_sentiment("instagram", caption),
                           emotions |-> detect_emotions("instagram", caption),
                           code |-> Get(media, "code", Str("")),
                           raw_data |-> media]))

RECURSIVE ParseInstagramLoop(_, _, _)
ParseInstagramLoop(media_items, i, documents) ==
    IF i > Len(media_items) THEN documents
    ELSE LET doc == create_media_document(media_items[i])
         IN  ParseInstagramLoop(media_items, i + 1,
                 IF Truthy(doc) THEN Append(documents, doc) ELSE documents)

parse_instagram_json(data) ==
    LET media_items == Iter(extract_media_from_grid(data))
    IN  IF IsRaise(media_items) THEN media_items
        ELSE List(ParseInstagramLoop(media_items.v, 1, <<>>))

-----------------------------------------------------------------------------
(* src/parsers/twitter_parser.py *)

\* "if item_content.get('itemType') == 'TimelineTweet': ... if tweet: append":
\* the list of the zero or one tweets to append, or the exception
TimelineTweetOf(item_content) ==
    LET itemType == Get(item_content, "itemType", Null)
        tweet == Get(Get(item_content, "tweet_results", EmptyDict),
                     "result", EmptyDict)
    IN  IF IsRaise(itemType) THEN itemType
        ELSE IF ~PyEq(itemType, Str("TimelineTweet")) THEN EmptyList
        ELSE IF IsRaise(tweet) THEN tweet
        ELSE IF Truthy(tweet) THEN List(<<tweet>>)
        ELSE EmptyList

\* st is [tweets: collected so far, raised: an exception left the loops]
RECURSIVE ModuleItemsLoop(_, _, _)
ModuleItemsLoop(items, i, st) ==
    IF i > Len(items) THEN st
    ELSE LET found == TimelineTweetOf(
                          Get(Get(items[i], "item", EmptyDict),
                              "itemContent", EmptyDict))
         IN  IF IsRaise(found) THEN [st EXCEPT !.raised = TRUE]
             ELSE ModuleItemsLoop(items, i + 1,
                                  [st EXCEPT !.tweets = @ \o found.v])

\* one iteration of "for entry in entries"
TimelineEntry(entry, st) ==
    LET content == Get(entry, "content", EmptyDict)
        entryType == Get(content, "entryType", Null)
        found == TimelineTweetOf(Get(content, "itemContent", EmptyDict))
        items == Iter(Get(content, "items", EmptyList))
        failed == [st EXCEPT !.raised = TRUE]
    IN  IF IsRaise(entryType) THEN failed
        ELSE IF PyEq(entryType, Str("TimelineTimelineItem")) THEN
            IF IsRaise(found) THEN failed
            ELSE [st EXCEPT !.tweets = @ \o found.v]
        ELSE IF PyEq(entryType, Str("TimelineTimelineModule")) THEN
            IF IsRaise(items) THEN failed
            ELSE ModuleItemsLoop(items.v, 1, st)
        ELSE st

RECURSIVE TimelineEntriesLoop(_, _, _)
TimelineEntriesLoop(entries, i, st) ==
    IF i > Len(entries) \/ st.raised THEN st
    ELSE TimelineEntriesLoop(entries, i + 1, TimelineEntry(entries[i], st))

\* one iteration of "for instruction in instructions"
TimelineInstruction(instruction, st) ==
    LET type == Get(instruction, "type", Null)
        entries == Iter(Get(instruction, "entries", EmptyList))
    IN  IF IsRaise(type) THEN [st EXCEPT !.raised = TRUE]
        ELSE IF ~PyEq(type, Str("TimelineAddEntries")) THEN st
        ELSE IF IsRaise(entries) THEN [st EXCEPT !.raised = TRUE]
        ELSE TimelineEntriesLoop(entries.v, 1, st)

RECURSIVE TimelineInstructionsLoop(_, _, _)
TimelineInstructionsLoop(instructions, i, st) ==
    IF i > Len(instructions) \/ st.raised THEN st
    ELSE TimelineInstructionsLoop(instructions, i + 1,
                                  TimelineInstruction(instructions[i], st))

extract_tweets_from_timeline(data) ==
    LET timeline == Get(Get(Get(data, "data", EmptyDict), "result", EmptyDict),
                        "timeline", EmptyDict)
        instructions == Iter(Get(timeline, "instructions", EmptyList))
    IN  IF IsRaise(instructions) THEN EmptyList
        ELSE List(TimelineInstructionsLoop(instructions.v, 1,
                      [tweets |-> <<>>, raised |-> FALSE]).tweets)

DayNames == <<"mon", "tue", "wed", "thu", "fri", "sat", "sun">>
MonthNames == <<"jan", "feb", "mar", "apr", "may", "jun",
                "jul", "aug", "sep", "oct", "nov", "dec">>

IsLeap(y) == (y % 4 = 0 /\ y % 100 # 0) \/ y % 400 = 0

DaysInMonth(y, m) ==
    IF m = 2 THEN (IF IsLeap(y) THEN 29 ELSE 28)
    ELSE IF m \in {4, 6, 9, 11} THEN 30 ELSE 31

\* a %d, %H, %M or %S field: one or two digits
IsField2(s) == Len(s) \in {1, 2} /\ AllDigits(s)

\* the utcoffset text isoformat() prints for a %z field, or "" when the
\* field does not match %z
OffsetIso(z) ==
    IF z = "Z" THEN "+00:00"
    ELSE IF Len(z) = 5 /\ SubSeq(z, 1, 1) \in {"+", "-"}
            /\ AllDigits(SubSeq(z, 2, 5)) /\ ToInt(SubSeq(z, 4, 5)) <= 59
    THEN IF ToInt(SubSeq(z, 2, 5)) = 0 THEN "+00:00"
         ELSE SubSeq(z, 1, 3) \o ":" \o SubSeq(z, 4, 5)
    ELSE IF Len(z) = 6 /\ SubSeq(z, 1, 1) \in {"+", "-"}
            /\ SubSeq(z, 4, 4) = ":"
            /\ AllDigits(SubSeq(z, 2, 3)) /\ AllDigits(SubSeq(z, 5, 6))
            /\ ToInt(SubSeq(z, 5, 6)) <= 59
    THEN IF ToInt(SubSeq(z, 2, 3)) = 0 /\ ToInt(SubSeq(z, 5, 6)) = 0
         THEN "+00:00" ELSE z
    ELSE ""

\* the date and time a string of six fields f, the fourth being h:m:s,
\* stands for, or the ValueError of fields off the layout
StrptimeFields(f, hms) ==
    LET mon == {i \in 1..12 : MonthNames[i] = Lower(f[2])}
        bad == Raise("ValueError")
    IN  IF ~(\E i \in 1..7 : DayNames[i] = Lower(f[1])) \/ mon = {} THEN bad
        ELSE IF ~IsField2(f[3]) \/ Len(hms) # 3 THEN bad
        ELSE IF \E i \in 1..3 : ~IsField2(hms[i]) THEN bad
        ELSE IF OffsetIso(f[5]) = "" \/ Len(f[6]) # 4 \/ ~AllDigits(f[6]) THEN bad
        ELSE IF ToInt(f[6]) < 1 \/ ToInt(f[3]) < 1
                \/ ToInt(f[3]) > DaysInMonth(ToInt(f[6]), CHOOSE i \in mon : TRUE)
             THEN bad
        ELSE IF ToInt(hms[1]) > 23 \/ ToInt(hms[2]) > 59 \/ ToInt(hms[3]) > 59
             THEN bad
        ELSE [t |-> "iso",
              v |-> <<ToInt(f[6]), CHOOSE i \in mon : TRUE, ToInt(f[3]),
                      ToInt(hms[1]), ToInt(hms[2]), ToInt(hms[3]),
                      OffsetIso(f[5])>>]

\* the fields of the pieces of a string split at spaces: runs of spaces
\* inside the string separate as one space does, a space at either end
\* matches nothing
StrptimePieces(parts, f) ==
    IF parts[1] = "" \/ parts[Len(parts)] = "" \/ Len(f) # 6
    THEN Raise("ValueError")
    ELSE StrptimeFields(f, Split(f[4], ":"))

NonEmpty(parts) == SelectSeq(parts, LAMBDA p : p # "")

\* datetime.strptime(s, "%a %b %d %H:%M:%S %z %Y").isoformat(), as the
\* fields of the ISO text, or the ValueError of a string off the layout
StrptimeIso(s) == StrptimePieces(Split(s, " "), NonEmpty(Split(s, " ")))

\* "try: return dt.isoformat() / except: return datetime.now().isoformat()"
OrNow(dt) == IF IsRaise(dt) THEN NowIso ELSE dt

\* the parse without its except branch
parse_twitter_timestamp_noexcept(timestamp_str) ==
    IF timestamp_str.t # "str" THEN Raise("TypeError")
    ELSE StrptimeIso(timestamp_str.v)

parse_twitter_timestamp(timestamp_str) ==
    OrNow(IF timestamp_str.t # "str" THEN Raise("TypeError")
          ELSE StrptimeIso(timestamp_str.v))

\* [tag[key] for tag in x]
RECURSIVE Pluck(_, _, _)
Pluck(seq, key, i) ==
    IF i > Len(seq) THEN EmptyList
    ELSE LET head == Item(seq[i], key)
             rest == Pluck(seq, key, i + 1)
         IN  IF IsRaise(head) THEN head
             ELSE IF IsRaise(rest) THEN rest
             ELSE List(<<head>> \o rest.v)

PluckAll(x, key) ==
    LET seq == Iter(x) IN IF IsRaise(seq) THEN seq ELSE Pluck(seq.v, key, 1)

\* legacy's full_text, or the text of an expandable note tweet that has one
FullText(legacy_text, is_expandable, note_text) ==
    IF IsRaise(legacy_text) THEN legacy_text
    ELSE IF IsRaise(is_expandable) THEN is_expandable
    ELSE IF ~Truthy(is_expandable) THEN legacy_text
    ELSE IF IsRaise(note_text) THEN note_text
    ELSE IF Truthy(note_text) THEN note_text
    ELSE legacy_text

\* the try block up to "document = {...}": the document, or the exception
\* raised on the way
TweetDocument(tweet) ==
    LET legacy == Get(tweet, "legacy", EmptyDict)
        user == Get(Get(Get(tweet, "core", EmptyDict),
                        "user_results", EmptyDict), "result", EmptyDict)
        user_legacy == Get(user, "legacy", EmptyDict)
        note_tweet == Get(tweet, "note_tweet", EmptyDict)
        full_text ==
            FullText(Get(legacy, "full_text", Str("")),
                     Get(note_tweet, "is_expandable", Null),
                     Get(Get(Get(note_tweet, "note_tweet_results", EmptyDict),
                             "result", EmptyDict), "text", Null))
        created_at == Get(legacy, "created_at", Str(""))
        metrics == Build([like_count |-> Get(legacy, "favorite_count", Num(0)),
                          retweet_count |-> Get(legacy, "retweet_count", Num(0)),
                          view_count |-> Get(Get(tweet, "views", EmptyDict),
                                             "count", Num(0))])
        user_info == Build([id |-> Get(user, "rest_id", Str("")),
                            followers_count |->
                                Get(user_legacy, "followers_count", Num(0))])
        entities == Get(legacy, "entities", EmptyDict)
        document ==
            Build([platform |-> Str("twitter"),
                   platform_id |-> Get(tweet, "rest_id", Str("")),
                   content |-> full_text,
                   author |-> user_info,
                   timestamp |-> parse_twitter_timestamp(created_at),
                   created_at |-> created_at,
                   metrics |-> metrics,
                   hashtags |-> PluckAll(Get(entities, "hashtags", EmptyList), "text"),
                   mentions |-> PluckAll(Get(entities, "user_mentions", EmptyList),
                                         "screen_name"),
                   language |-> Get(legacy, "lang", Str("")),
                   sentiment |-> analyze_sentiment("twitter", full_text),
                   emotions |-> detect_emotions("twitter", full_text),
                   raw_data |-> tweet])
    IN  IF tweet.t # "dict" THEN Raise("AttributeError") ELSE document

\* "if not tweet.get('rest_id', ''): return None / return document"
ReturnDocument(tweet, document) ==
    IF IsRaise(document) THEN document
    ELSE IF ~Truthy(Get(tweet, "rest_id", Str(""))) THEN Null
    ELSE document

\* the builder without "if not tweet.get('rest_id', ''): return None"
create_tweet_document_noid(tweet) == OrNone(TweetDocument(tweet))

create_tweet_document(tweet) == OrNone(ReturnDocument(tweet, TweetDocument(tweet)))

RECURSIVE ParseTwitterLoop(_, _, _)
ParseTwitterLoop(tweets, i, documents) ==
    IF i > Len(tweets) THEN documents
    ELSE LET doc == create_tweet_document(tweets[i])
         IN  ParseTwitterLoop(tweets, i + 1,
                 IF Truthy(doc) THEN Append(documents, doc) ELSE documents)

parse_twitter_json(data) ==
    LET tweets == Iter(extract_tweets_from_timeline(data))
    IN  IF IsRaise(tweets) THEN tweets
        ELSE List(ParseTwitterLoop(tweets.v, 1, <<>>))

-----------------------------------------------------------------------------
(* Raw responses the engine is run on *)

MaxEntries == 3

Platforms == <<"twitter", "instagram", "tiktok", "facebook", "youtube">>

Clock == {1700000000, 1700000000 + 90061}

\* every list of at most MaxEntries entries
Lists(S) == UNION {[1..n -> S] : n \in 0..MaxEntries}

\* time values a raw item may carry in its unix-epoch field
UnusableTimes ==
    {Num(0), Num(0 - 5), Str("2023-11-14"), Null, EmptyList,
     Float("1e20"), Float("-1e20"), Float("inf"), Float("nan")}

UsableTimes == {Num(1), Num(1665000934), Num(2147483647)}

FbPost(id) == [type |-> Str("post"), post_id |-> Str(id)]

FbEntries ==
    {Dict(FbPost("p1") @@ [timestamp |-> Num(1665000934),
                           message |-> Str("hello"),
                           reactions_count |-> Num(5),
                           author |-> Dict([id |-> Str("a1")])]),
     Dict(FbPost("p2")),
     Dict(FbPost("p3") @@ [author |-> Null]),
     Dict([type |-> Str("comment"), post_id |-> Str("c1")]),
     Dict([post_id |-> Str("p4")]),
     Str("junk")}

FbTimed == {Dict(FbPost("p5") @@ [timestamp |-> x]) :
               x \in UnusableTimes \cup UsableTimes}
           \cup {Dict(FbPost("p6") @@ [reactions |-> Str("none")])}

FbWrap(results) == Dict([data |-> Dict([results |-> results])])

FbRaws ==
    {FbWrap(List(l)) : l \in Lists(FbEntries)}
    \cup {FbWrap(List(<<e>>)) : e \in FbTimed}
    \cup {Null, EmptyDict, EmptyList, Dict([data |-> Null]),
          Dict([data |-> EmptyDict]), FbWrap(Null), FbWrap(Str("")),
          FbWrap(EmptyDict),
          Dict([results |-> List(<<Dict(FbPost("p1"))>>)])}

YtVideo(id) == [videoId |-> Str(id)]

YtEntry(video) == Dict([type |-> Str("video"), video |-> video])

YtEntries ==
    {YtEntry(Dict(YtVideo("y1") @@ [title |-> Str("Clip"),
                                    lengthSeconds |-> Num(125),
                                    publishedTimeText |-> Str("3 days ago")])),
     YtEntry(Dict(YtVideo("y2"))),
     YtEntry(Dict(YtVideo("y3") @@ [stats |-> Null])),
     YtEntry(Str("y4")),
     Dict([type |-> Str("channel"), video |-> Dict(YtVideo("y5"))]),
     Dict([type |-> Str("video")]),
     Num(7)}

RelativeTimes ==
    {"3 days ago", "1 day ago", "2 weeks ago", "5 months ago", "1 year ago",
     "4 hours ago", "Streamed 12 minutes ago", "0 days ago"}

YtTimed ==
    {YtEntry(Dict(YtVideo("y6") @@ [publishedTimeText |-> Str(x)])) :
        x \in RelativeTimes \cup {"", "yesterday", "days ago"}}
    \cup {YtEntry(Dict(YtVideo("y7") @@ [publishedTimeText |-> Num(3)])),
          YtEntry(Dict(YtVideo("y8") @@ [lengthSeconds |-> Str("125")])),
          YtEntry(Dict([link |-> Str("https://youtu.be/watch?v=y9&t=1")])),
          YtEntry(Dict([navigationEndpoint |-> Null]))}

YtWrap(contents) == Dict([data |-> Dict([contents |-> contents])])

YtRaws ==
    {YtWrap(List(l)) : l \in Lists(YtEntries)}
    \cup {YtWrap(List(<<e>>)) : e \in YtTimed}
    \cup {Null, EmptyDict, Dict([data |-> Null]), Dict([data |-> EmptyDict]),
          YtWrap(Null), YtWrap(Num(0)),
          Dict([contents |-> List(<<YtEntry(Dict(YtVideo("y1")))>>)])}

TkVideo(id) == [id |-> Str(id)]

TkEntry(item) == Dict([type |-> Num(1), item |-> item])

TkEntries ==
    {TkEntry(Dict(TkVideo("v1") @@ [createTime |-> Num(1665000934),
                                    desc |-> Str("dance"),
                                    stats |-> Dict([diggCount |-> Num(4),
                                                    shareCount |-> Num(1)])])),
     TkEntry(Dict(TkVideo("v2"))),
     TkEntry(Dict(TkVideo("v3") @@ [author |-> Null])),
     TkEntry(Str("v4")),
     TkEntry(EmptyDict),
     Dict([type |-> Num(2), item |-> Dict(TkVideo("v5"))]),
     Null}

TkTimed ==
    {TkEntry(Dict(TkVideo("v6") @@ [createTime |-> x])) :
        x \in UnusableTimes \cup UsableTimes}
    \cup {TkEntry(Dict(TkVideo("v7") @@
                       [stats |-> Dict([diggCount |-> Str("4")])])),
          Dict([type |-> Bool(TRUE), item |-> Dict(TkVideo("v8"))])}

TkWrap(data_array) == Dict([data |-> Dict([data |-> data_array])])

TkRaws ==
    {TkWrap(List(l)) : l \in Lists(TkEntries)}
    \cup {TkWrap(List(<<e>>)) : e \in TkTimed}
    \cup {Null, EmptyDict, Dict([data |-> Null]), Dict([data |-> EmptyDict]),
          Dict([data |-> EmptyList]), TkWrap(Null),
          Dict([item |-> List(<<TkEntry(Dict(TkVideo("v1")))>>)])}

IgMedia(id) == [id |-> Str(id)]

IgItem(media) == Dict([media |-> media])

IgLayout(layout_content) == Dict([layout_content |-> layout_content])

IgClips(items) == Dict([clips |-> Dict([items |-> List(items)])])

IgSections ==
    {IgLayout(Dict([one_by_two_item |->
          IgClips(<<IgItem(Dict(IgMedia("m1") @@ [taken_at |-> Num(1665000934)])),
                    IgItem(EmptyDict),
                    IgItem(Dict(IgMedia("m2") @@ [user |-> Str("u")]))>>)])),
     IgLayout(Dict([two_by_two_items |->
          List(<<IgItem(Dict([pk |-> Num(33)])), Str("junk"),
                 IgItem(Dict(IgMedia("m4")))>>)])),
     IgLayout(Dict([medias |->
          List(<<Dict(IgMedia("m5") @@ [caption |-> Dict([text |-> Str("hi")])]),
                 Str("m6"), EmptyDict>>)])),
     IgLayout(Dict([one_by_two_item |-> IgClips(<<IgItem(Dict(IgMedia("m7")))>>),
                    medias |-> List(<<Dict(IgMedia("m8"))>>)])),
     IgLayout(Null),
     Dict([feed_type |-> Str("media")]),
     Str("junk")}

IgTimed ==
    {IgLayout(Dict([medias |-> List(<<Dict(IgMedia("m9") @@ [taken_at |-> x])>>)])) :
        x \in UnusableTimes \cup UsableTimes}
    \cup {IgLayout(Dict([medias |->
              List(<<Dict(IgMedia("m10") @@ [device_timestamp |-> Num(1665000934)])>>)])),
          IgLayout(Dict([medias |-> List(<<Dict(IgMedia("m11"))>>)]))}

IgWrap(sections) ==
    Dict([data |-> Dict([media_grid |-> Dict([sections |-> sections])])])

IgRaws ==
    {IgWrap(List(l)) : l \in Lists(IgSections)}
    \cup {IgWrap(List(<<e>>)) : e \in IgTimed}
    \cup {Null, EmptyDict, Dict([data |-> Null]), Dict([data |-> EmptyDict]),
          Dict([data |-> Dict([media_grid |-> Null])]), IgWrap(Null),
          IgWrap(List(<<IgLayout(Dict([medias |-> Null]))>>)),
          IgWrap(List(<<IgLayout(Dict([medias |-> EmptyList]))>>))}

TwTweet(id) == [rest_id |-> Str(id)]

TwItemContent(tweet) ==
    Dict([itemType |-> Str("TimelineTweet"),
          tweet_results |-> Dict([result |-> tweet])])

TwEntry(tweet) ==
    Dict([content |-> Dict([entryType |-> Str("TimelineTimelineItem"),
                            itemContent |-> TwItemContent(tweet)])])

TwModule(items) ==
    Dict([content |-> Dict([entryType |-> Str("TimelineTimelineModule"),
                            items |-> List(items)])])

TwLegacy(created_at) ==
    Dict([full_text |-> Str("hi"), created_at |-> Str(created_at)])

TwEntries ==
    {TwEntry(Dict(TwTweet("t1") @@
                  [legacy |-> TwLegacy("Wed Oct 05 19:55:34 +0000 2022")])),
     TwEntry(Dict(TwTweet("t2"))),
     TwEntry(Dict([legacy |-> TwLegacy("Wed Oct 05 19:55:34 +0000 2022")])),
     TwEntry(Dict(TwTweet("") @@ [legacy |-> TwLegacy("")])),
     TwEntry(Dict(TwTweet("t5") @@ [legacy |-> Null])),
     TwModule(<<Dict([item |-> Dict([itemContent |->
                                        TwItemContent(Dict(TwTweet("t6")))])])>>),
     Dict([content |-> Dict([entryType |-> Str("TimelineTimelineCursor")])]),
     Str("junk")}

TimestampStrings ==
    {"Wed Oct 05 19:55:34 +0000 2022", "Sat Jan 01 00:00:00 +0700 2022",
     "wed oct 5 9:5:4 -0530 2022", "Thu Feb 29 23:59:59 Z 2024",
     "Wed  Oct 05 19:55:34 +0000 2022", "", "2022-10-05T19:55:34Z",
     "Wed Oct 05 19:55:34 2022", " Wed Oct 05 19:55:34 +0000 2022",
     "Wed Feb 30 19:55:34 +0000 2022", "Wed Oct 05 19:55:60 +0000 2022",
     "Wed Okt 05 19:55:34 +0000 2022", "Wed Oct 05 19:55:34 +0000 22"}

TwTimed ==
    {TwEntry(Dict(TwTweet("t7") @@ [legacy |-> TwLegacy(x)])) :
        x \in TimestampStrings}
    \cup {TwEntry(Dict(TwTweet("t8") @@
                       [legacy |-> Dict([created_at |-> x])])) :
             x \in {Null, Num(1665000934)}}
    \cup {TwEntry(Dict(TwTweet("t9") @@
                       [legacy |-> Dict([full_text |-> Null])])),
          TwEntry(Dict(TwTweet("t10") @@
                       [legacy |-> Dict([entities |-> Dict([hashtags |->
                           List(<<Dict([text |-> Str("a")]), EmptyDict>>)])])])),
          TwEntry(Dict([rest_id |-> Num(0)])),
          TwEntry(Dict([rest_id |-> Null])),
          TwEntry(EmptyDict),
          TwEntry(Str("t11"))}

TwAdd(entries) ==
    Dict([type |-> Str("TimelineAddEntries"), entries |-> entries])

TwWrap(instructions) ==
    Dict([data |-> Dict([result |-> Dict([timeline |->
              Dict([instructions |-> instructions])])])])

TwRaws ==
    {TwWrap(List(<<TwAdd(List(l))>>)) : l \in Lists(TwEntries)}
    \cup {TwWrap(List(<<TwAdd(List(<<e>>))>>)) : e \in TwTimed}
    \cup {TwWrap(List(<<i, TwAdd(List(<<TwEntry(Dict(TwTweet("t2")))>>))>>)) :
             i \in {Dict([type |-> Str("TimelineClearCache")]), Null,
                    TwAdd(Null),
                    TwAdd(List(<<TwEntry(Dict(TwTweet("t1")))>>))}}
    \cup {Null, EmptyDict, Dict([data |-> Null]), Dict([data |-> EmptyDict]),
          Dict([data |-> Dict([result |-> Null])]),
          Dict([data |-> Dict([result |-> Dict([timeline |-> Null])])]),
          TwWrap(Null), TwWrap(EmptyList)}

\* raw responses whose items carry text and counters
TextedRaws(p) ==
    CASE p = "twitter" ->
           {TwWrap(List(<<TwAdd(List(l))>>)) : l \in
               {<<>>,
                <<TwEntry(Dict(TwTweet("t21") @@ [legacy |->
                      Dict([full_text |-> Str("Great day #sun @you"),
                            lang |-> Str("en"),
                            favorite_count |-> Num(3),
                            retweet_count |-> Num(2),
                            entities |-> Dict([hashtags |->
                                List(<<Dict([text |-> Str("sun")])>>)])])]))>>,
                <<TwEntry(Dict(TwTweet("t22") @@ [legacy |->
                      Dict([full_text |-> Str("so sad"), lang |-> Str("und")])])),
                  TwEntry(Dict(TwTweet("t23") @@ [legacy |->
                      Dict([full_text |-> Str("#a b"),
                            favorite_count |-> Num(1)])]))>>}}
      [] p = "instagram" ->
           {IgWrap(List(<<IgLayout(Dict([medias |-> List(l)]))>>)) : l \in
               {<<>>,
                <<Dict(IgMedia("m21") @@ [caption |-> Dict([text |->
                                              Str("Beautiful #Sky @me")]),
                                          like_count |-> Num(7),
                                          comment_count |-> Num(1)])>>,
                <<Dict(IgMedia("m22") @@ [caption |-> Dict([text |-> Str("worst")])]),
                  Dict(IgMedia("m23") @@ [like_count |-> Num(2)])>>}}
      [] p = "tiktok" ->
           {TkWrap(List(l)) : l \in
               {<<>>,
                <<TkEntry(Dict(TkVideo("v21") @@
                      [desc |-> Str("so fun #Dance @you and me"),
                       stats |-> Dict([diggCount |-> Num(4),
                                       shareCount |-> Num(1)])]))>>,
                <<TkEntry(Dict(TkVideo("v22") @@
                      [desc |-> Str("boring"),
                       music |-> Dict([original |-> Bool(TRUE)])])),
                  TkEntry(Dict(TkVideo("v23") @@
                      [desc |-> Str("saya dan itu"),
                       stats |-> Dict([diggCount |-> Num(2)])]))>>}}
      [] p = "facebook" ->
           {FbWrap(List(l)) : l \in
               {<<>>,
                <<Dict(FbPost("p21") @@ [message |-> Str("I love this and that #Tag @you"),
                                         reactions_count |-> Num(5),
                                         comments_count |-> Num(2)])>>,
                <<Dict(FbPost("p22") @@ [message |-> Str("saya tidak ada")]),
                  Dict(FbPost("p23") @@ [message |-> Str("awful"),
                                         reactions_count |-> Num(1)])>>}}
      [] p = "youtube" ->
           {YtWrap(List(l)) : l \in
               {<<>>,
                <<YtEntry(Dict(YtVideo("y21") @@
                      [title |-> Str("Worst game #fail"),
                       descriptionSnippet |-> Str("the #end @you"),
                       stats |-> Dict([views |-> Num(10)])]))>>,
                <<YtEntry(Dict(YtVideo("y22") @@ [title |-> Str("Great song")])),
                  YtEntry(Dict(YtVideo("y23") @@
                      [descriptionSnippet |-> Str("hello"),
                       stats |-> Dict([views |-> Num(3)])]))>>}}

ShapedRaws(p) ==
    CASE p = "twitter" -> TwRaws
      [] p = "instagram" -> IgRaws
      [] p = "tiktok" -> TkRaws
      [] p = "facebook" -> FbRaws
      [] p = "youtube" -> YtRaws

RawInputs(p) == ShapedRaws(p) \cup TextedRaws(p)

-----------------------------------------------------------------------------
(* The engine: one call of an extractor or of a parser on a raw response *)

NoArg == [fn |-> "none"]
NoFiles == <<>>

Init ==
    /\ now \in Clock
    /\ platform \in {Platforms[i] : i \in 1..Len(Platforms)}
    /\ raw \in RawInputs(platform)
    /\ pc = "start"
    /\ call = "none"
    /\ out = Null
    /\ arg = NoArg
    /\ fs = NoFiles
    /\ all_results = <<>>
    /\ cursor = 1
    /\ trace = <<>>

Return(name, value) ==
    /\ pc = "start"
    /\ pc' = "done"
    /\ call' = name
    /\ out' = value
    /\ UNCHANGED <<engineVars, facadeVars>>

ExtractTweets ==
    platform = "twitter"
    /\ Return("extract_tweets_from_timeline", extract_tweets_from_timeline(raw))

ParseTwitter ==
    platform = "twitter" /\ Return("parse_twitter_json", parse_twitter_json(raw))

ExtractMedia ==
    platform = "instagram"
    /\ Return("extract_media_from_grid", extract_media_from_grid(raw))

ParseInstagram ==
    platform = "instagram"
    /\ Return("parse_instagram_json", parse_instagram_json(raw))

ExtractTiktokVideos ==
    platform = "tiktok"
    /\ Return("extract_videos_from_data", tiktok_extract_videos_from_data(raw))

ParseTiktok ==
    platform = "tiktok" /\ Return("parse_tiktok_json", parse_tiktok_json(raw))

ExtractPosts ==
    platform = "facebook"
    /\ Return("extract_posts_from_data", extract_posts_from_data(raw))

ParseFacebook ==
    platform = "facebook"
    /\ Return("parse_facebook_json", parse_facebook_json(raw))

ExtractYoutubeVideos ==
    platform = "youtube"
    /\ Return("extract_videos_from_data", youtube_extract_videos_from_data(raw))

ParseYoutube ==
    platform = "youtube" /\ Return("parse_youtube_json", parse_youtube_json(raw))

Next ==
    \/ ExtractTweets \/ ParseTwitter
    \/ ExtractMedia \/ ParseInstagram
    \/ ExtractTiktokVideos \/ ParseTiktok
    \/ ExtractPosts \/ ParseFacebook
    \/ ExtractYoutubeVideos \/ ParseYoutube

Spec == Init /\ [][Next]_vars

-----------------------------------------------------------------------------
(* src/parse_all.py: SocialMediaParser *)

Missing == [t |-> "missing", v |-> 0]
Invalid == [t |-> "invalid", v |-> 0]

EventOpen(file_path) == <<"open", file_path>>
EventParser(name) == <<"parser", name>>

\* a registry whose first two entries are bound to each other's parser
RunParser_swapped(name, data) ==
    CASE name = "twitter" -> parse_instagram_json(data)
      [] name = "instagram" -> parse_twitter_json(data)
      [] name = "tiktok" -> parse_tiktok_json(data)
      [] name = "facebook" -> parse_facebook_json(data)
      [] name = "youtube" -> parse_youtube_json(data)

\* self.parsers[name](data)
RunParser(name, data) ==
    CASE name = "twitter" -> parse_twitter_json(data)
      [] name = "instagram" -> parse_instagram_json(data)
      [] name = "tiktok" -> parse_tiktok_json(data)
      [] name = "facebook" -> parse_facebook_json(data)
      [] name = "youtube" -> parse_youtube_json(data)

\* platform in self.parsers
InRegistry(p) == p.t = "str" /\ \E i \in 1..Len(Platforms) : Platforms[i] = p.v

\* a result is [ret: the value returned or the exception raised,
\*              trace: the files opened and parsers invoked so far]
parse_platform_data(p, data, tr) ==
    IF ~InRegistry(p)
    THEN [ret |-> Raise("ValueError"), trace |-> tr]
    ELSE [ret |-> RunParser(p.v, data), trace |-> Append(tr, EventParser(p.v))]

\* os.path.basename(file_path)
Basename(file_path) ==
    LET parts == Split(file_path, "/") IN parts[Len(parts)]

\* the detection loop without its break: the last match stays
RECURSIVE DetectLoop_nobreak(_, _)
DetectLoop_nobreak(filename, i) ==
    IF i > Len(Platforms) THEN Null
    ELSE LET later == DetectLoop_nobreak(filename, i + 1)
         IN  IF later.t # "null" THEN later
             ELSE IF Contains(filename, Platforms[i]) THEN Str(Platforms[i])
             ELSE Null

\* "for platform_name in self.parsers.keys(): if platform_name in filename:
\* platform = platform_name; break"
RECURSIVE DetectLoop(_, _)
DetectLoop(filename, i) ==
    IF i > Len(Platforms) THEN Null
    ELSE IF Contains(filename, Platforms[i]) THEN Str(Platforms[i])
    ELSE DetectLoop(filename, i + 1)

\* "with open(file_path) as f: data = json.load(f)" and the dispatch
LoadAndParse(file_path, p, content) ==
    IF content.t = "missing"
    THEN [ret |-> Raise("FileNotFoundError"), trace |-> <<EventOpen(file_path)>>]
    ELSE IF content.t = "invalid"
    THEN [ret |-> Raise("JSONDecodeError"), trace |-> <<EventOpen(file_path)>>]
    ELSE parse_platform_data(p, content, <<EventOpen(file_path)>>)

\* the rest of parse_file once the platform is settled
ParseDetected(file_path, detected, files) ==
    IF detected.t = "null"
    THEN [ret |-> Raise("ValueError"), trace |-> <<>>]
    ELSE LoadAndParse(file_path, detected, files[file_path])

parse_file(file_path, p, files) ==
    ParseDetected(file_path,
                  IF p.t = "null"
                  THEN DetectLoop(Lower(Basename(file_path)), 1)
                  ELSE p,
                  files)

ExamplesDir == "example_results"

\* example_files, in insertion order
ExampleFiles == [i \in 1..Len(Platforms) |-> <<Platforms[i], Platforms[i] \o ".json">>]

ExamplePath(i) == ExamplesDir \o "/" \o ExampleFiles[i][2]

\* "except Exception as e: ... results[platform] = []"
Caught(r) == IF IsRaise(r.ret) THEN [r EXCEPT !.ret = EmptyList] ELSE r

\* the iteration without its try/except
ParseAllIteration_nocatch(i, files) ==
    IF files[ExamplePath(i)].t # "missing"
    THEN parse_file(ExamplePath(i), Str(ExampleFiles[i][1]), files)
    ELSE [ret |-> EmptyList, trace |-> <<>>]

\* one iteration of "for platform, filename in example_files.items()":
\* the result of the iteration, ret being the value stored in
\* results[platform]
ParseAllIteration(i, files) ==
    IF files[ExamplePath(i)].t # "missing"
    THEN Caught(parse_file(ExamplePath(i), Str(ExampleFiles[i][1]), files))
    ELSE [ret |-> EmptyList, trace |-> <<>>]

-----------------------------------------------------------------------------
(* The facade: one call of parse_platform_data, parse_file or             *)
(* parse_all_examples on a file system                                     *)

SampleRaw(p) ==
    CASE p = "twitter" ->
            TwWrap(List(<<TwAdd(List(<<TwEntry(Dict(TwTweet("t1"))),
                                       TwEntry(Dict(TwTweet("t2")))>>))>>))
      [] p = "instagram" ->
            IgWrap(List(<<IgLayout(Dict([medias |-> List(<<Dict(IgMedia("m1"))>>)]))>>))
      [] p = "tiktok" -> TkWrap(List(<<TkEntry(Dict(TkVideo("v1")))>>))
      [] p = "facebook" -> FbWrap(List(<<Dict(FbPost("p1")), Dict(FbPost("p2"))>>))
      [] p = "youtube" -> YtWrap(List(<<YtEntry(Dict(YtVideo("y1")))>>))

PlatformSet == {Platforms[i] : i \in 1..Len(Platforms)}

ExamplePaths == {ExamplePath(i) : i \in 1..Len(Platforms)}

DetectPaths ==
    {"dl/Twitter_dump.json", "tiktok_twitter.json", "data.json",
     "YOUTUBE.facebook.json", "instagram/feed.json", "x/my-TikTok.JSON",
     "facebook", "insta_gram.json", "youtube_tiktok_instagram.json"}

AllPaths == ExamplePaths \cup DetectPaths

PlatformArgs == {Str(p) : p \in PlatformSet \cup {"linkedin", "Twitter", ""}}

\* what an example file may hold: nothing (it is missing), no JSON, the
\* empty JSON object, or a response of its platform
FileContent(kind, p) ==
    CASE kind = "missing" -> Missing
      [] kind = "invalid" -> Invalid
      [] kind = "empty" -> EmptyDict
      [] kind = "sample" -> SampleRaw(p)

\* the file systems of a batch run
BatchFiles ==
    {[q \in AllPaths |->
         IF \E i \in 1..Len(Platforms) : q = ExamplePath(i)
         THEN LET i == CHOOSE i \in 1..Len(Platforms) : q = ExamplePath(i)
              IN  FileContent(kinds[i], Platforms[i])
         ELSE Missing] :
        kinds \in [1..Len(Platforms) -> {"missing", "invalid", "empty", "sample"}]}

OneFile(path, content) ==
    [q \in AllPaths |-> IF q = path THEN content ELSE Missing]

FacadeInit ==
    /\ now \in Clock
    /\ platform = "none"
    /\ raw = Null
    /\ pc = "start"
    /\ call = "none"
    /\ out = Null
    /\ all_results = <<>>
    /\ cursor = 1
    /\ trace = <<>>
    /\ \/ /\ arg = [fn |-> "parse_all_examples"]
          /\ fs \in BatchFiles
       \/ /\ arg \in [fn : {"parse_file"}, file_path : DetectPaths,
                      platform : {Null, Str("facebook"), Str("linkedin")}]
          /\ fs \in {OneFile(arg.file_path, c) :
                        c \in {Missing, Invalid}
                              \cup {SampleRaw(p) : p \in PlatformSet}}
       \/ /\ arg \in [fn : {"parse_platform_data"}, platform : PlatformArgs,
                      data : {SampleRaw(p) : p \in PlatformSet} \cup {Null}]
          /\ fs = [q \in AllPaths |-> Missing]

FacadeReturn(r) ==
    /\ pc = "start"
    /\ pc' = "done"
    /\ call' = arg.fn
    /\ out' = r.ret
    /\ trace' = trace \o r.trace
    /\ UNCHANGED <<engineVars, arg, fs, all_results, cursor>>

ParsePlatformData ==
    /\ arg.fn = "parse_platform_data"
    /\ FacadeReturn(parse_platform_data(arg.platform, arg.data, <<>>))

ParseFile ==
    /\ arg.fn = "parse_file"
    /\ FacadeReturn(parse_file(arg.file_path, arg.platform, fs))

\* the end of an iteration whose result is r
ParseAllStore(r) ==
    /\ trace' = trace \o r.trace
    /\ IF IsRaise(r.ret)
       \* an exception that leaves the loop body leaves the call
       THEN /\ pc' = "done"
            /\ call' = arg.fn
            /\ out' = r.ret
            /\ UNCHANGED <<all_results, cursor>>
       ELSE /\ all_results' =
                 Append(all_results, <<ExampleFiles[cursor][1], r.ret>>)
            /\ cursor' = cursor + 1
            /\ UNCHANGED <<pc, call, out>>
    /\ UNCHANGED <<engineVars, arg, fs>>

ParseAllStep ==
    /\ arg.fn = "parse_all_examples"
    /\ pc = "start"
    /\ cursor <= Len(ExampleFiles)
    /\ ParseAllStore(ParseAllIteration(cursor, fs))

ParseAllReturn ==
    /\ arg.fn = "parse_all_examples"
    /\ pc = "start"
    /\ cursor > Len(ExampleFiles)
    /\ pc' = "done"
    /\ call' = arg.fn
    /\ out' = List(all_results)
    /\ UNCHANGED <<engineVars, facadeVars>>

FacadeNext ==
    \/ ParsePlatformData
    \/ ParseFile
    \/ ParseAllStep
    \/ ParseAllReturn

Facade == FacadeInit /\ [][FacadeNext]_vars

-----------------------------------------------------------------------------
(* The enrichment helpers, each called on its own *)

MaxWords == 2
MaxTags == 2

\* the texts of 1 to n words of a list, single spaces between the words
RECURSIVE WordTexts(_, _)
WordTexts(words, n) ==
    IF n = 1 THEN {words[i] : i \in 1..Len(words)}
    ELSE WordTexts(words, n - 1)
         \cup {t \o " " \o words[i] :
                  t \in WordTexts(words, n - 1), i \in 1..Len(words)}

OtherTexts ==
    {"", "hello world", "Badge of honor", "GOOD", "So SAD, so Angry",
     "Great but AWFUL", "#tag @me", "a #b#c ##d #_x1 # e @f@g #",
     "Saya dan kita", "the video", "island", "THE end", "and", "xyz"}

SentimentTexts(p) ==
    WordTexts(positive_words(p), MaxWords)
    \cup WordTexts(negative_words(p), MaxWords)
    \cup {positive_words(p)[i] \o " " \o negative_words(p)[j] :
             i \in 1..Len(positive_words(p)), j \in 1..Len(negative_words(p))}
    \cup OtherTexts

LanguagePlatforms == {"facebook", "tiktok", "youtube"}

LanguageTexts(p) ==
    WordTexts(indonesian_words(p), MaxWords)
    \cup WordTexts(english_words(p), MaxWords)
    \cup {indonesian_words(p)[i] \o " " \o english_words(p)[j] :
             i \in 1..Len(indonesian_words(p)), j \in 1..Len(english_words(p))}
    \cup OtherTexts

ScanPlatforms == {"facebook", "instagram", "tiktok", "youtube"}

Tags == {"dance", "Funny", "trip", "xyz", "catlover", "Gym"}

TagLists == UNION {[1..n -> {Str(t) : t \in Tags}] : n \in 0..MaxTags}

Descs == {"", "hello", "my dance", "so funny", "Howl", "FUNNY trip", "#gym"}

MusicInfos ==
    {EmptyDict, Dict([original |-> Bool(TRUE)]), Dict([original |-> Bool(FALSE)]),
     Dict([original |-> Num(1), title |-> Str("sound")])}

Titles == {"", "hello", "Funny clip", "My trip", "Game review", "Day in the Life"}

Descriptions == {"", "nothing here", "#travel", "#Music and more", "how to bake"}

EnrichArgs(p) ==
    [fn : {"analyze_sentiment"}, text : {Str(x) : x \in SentimentTexts(p)}]
    \cup (IF p \in LanguagePlatforms
          THEN [fn : {"detect_language"}, text : {Str(x) : x \in LanguageTexts(p)}]
          ELSE {})
    \cup (IF p \in ScanPlatforms
          THEN [fn : {"extract_hashtags", "extract_mentions"},
                text : {Str(x) : x \in OtherTexts}]
          ELSE {})
    \cup (IF p = "tiktok"
          THEN [fn : {"determine_category"}, desc : {Str(x) : x \in Descs},
                hashtags : {List(l) : l \in TagLists}, music_info : MusicInfos]
          ELSE {})
    \cup (IF p = "youtube"
          THEN [fn : {"determine_category"}, title : {Str(x) : x \in Titles},
                description : {Str(x) : x \in Descriptions}]
          ELSE {})

EnrichInit ==
    /\ now = 1700000000
    /\ platform \in {Platforms[i] : i \in 1..Len(Platforms)}
    /\ arg \in EnrichArgs(platform)
    /\ raw = Null
    /\ pc = "start"
    /\ call = "none"
    /\ out = Null
    /\ fs = NoFiles
    /\ all_results = <<>>
    /\ cursor = 1
    /\ trace = <<>>

AnalyzeSentiment ==
    /\ arg.fn = "analyze_sentiment"
    /\ Return("analyze_sentiment", analyze_sentiment(platform, arg.text))

DetectLanguage ==
    /\ arg.fn = "detect_language"
    /\ Return("detect_language", detect_language(platform, arg.text))

ExtractHashtags ==
    /\ arg.fn = "extract_hashtags"
    /\ Return("extract_hashtags", extract_hashtags(arg.text))

ExtractMentions ==
    /\ arg.fn = "extract_mentions"
    /\ Return("extract_mentions", extract_mentions(arg.text))

TiktokDetermineCategory ==
    /\ arg.fn = "determine_category"
    /\ platform = "tiktok"
    /\ Return("determine_category",
              tiktok_determine_category(arg.desc, arg.hashtags, arg.music_info))

YoutubeDetermineCategory ==
    /\ arg.fn = "determine_category"
    /\ platform = "youtube"
    /\ Return("determine_category",
              youtube_determine_category(arg.title, arg.description))

EnrichNext ==
    \/ AnalyzeSentiment \/ DetectLanguage
    \/ ExtractHashtags \/ ExtractMentions
    \/ TiktokDetermineCategory \/ YoutubeDetermineCategory

Enrich == EnrichInit /\ [][EnrichNext]_vars

-----------------------------------------------------------------------------
(* The derived fields of a document, each helper called on its own:        *)
(* facebook determine_post_type and detect_emotions, youtube               *)
(* format_duration                                                         *)

MaxSeconds == 130
MaxReactions == 10

\* the sub-objects determine_post_type looks at, in the order of its chain
PostTypeKeys ==
    <<"video", "video_files", "image", "album_preview", "external_url",
      "attached_post", "attached_event">>

\* an empty and a non-empty value of each sub-object
SubObject(k, filled) ==
    CASE k \in {"video_files", "album_preview"} ->
           IF filled THEN List(<<Dict([id |-> Str("m1")])>>) ELSE EmptyList
      [] k = "external_url" ->
           IF filled THEN Str("https://example.org/a") ELSE Str("")
      [] OTHER -> IF filled THEN Dict([id |-> Str("m1")]) ELSE EmptyDict

\* the posts that have any of the sub-objects, each empty or non-empty
TypedPosts ==
    UNION {{Dict([k \in K |-> SubObject(k, f[k])]) : f \in [K -> BOOLEAN]} :
              K \in SUBSET {PostTypeKeys[i] : i \in 1..Len(PostTypeKeys)}}

\* lengths at and around the hour, the day and the hundred hours
LongDurations ==
    {3599, 3600, 3601, 3661, 7325, 35999, 36000, 86399, 86400, 359999,
     360000, 360001}

Durations == (0..MaxSeconds) \cup LongDurations

EmotionTexts == {"", "nothing", "so Happy", "I LOVE it", "haha", "sad and mad"}

ReactionKinds == {"love", "haha", "angry", "sad", "wow"}

\* the reactions counters: none, likes and one other kind, and three mixes
ReactionDicts ==
    {EmptyDict, Dict([love |-> Num(40), like |-> Num(60)]),
     Dict([love |-> Num(0), like |-> Num(0)]),
     Dict([love |-> Num(4), haha |-> Num(4), sad |-> Num(2)]),
     Dict([like |-> Num(5), love |-> Num(5), wow |-> Num(5), angry |-> Num(5)])}
    \cup {Dict([k \in {"like", kind} |-> IF k = "like" THEN Num(a) ELSE Num(b)]) :
             kind \in ReactionKinds, a \in 0..MaxReactions, b \in 0..MaxReactions}

DeriveArgs ==
    [fn : {"determine_post_type"}, post : TypedPosts]
    \cup [fn : {"format_duration"}, seconds : {Num(n) : n \in Durations}]
    \cup [fn : {"detect_emotions"}, text : {Str(x) : x \in EmotionTexts},
          reactions : ReactionDicts]

DeriveInit ==
    /\ now = 1700000000
    /\ arg \in DeriveArgs
    /\ platform = (IF arg.fn = "format_duration" THEN "youtube" ELSE "facebook")
    /\ raw = Null
    /\ pc = "start"
    /\ call = "none"
    /\ out = Null
    /\ fs = NoFiles
    /\ all_results = <<>>
    /\ cursor = 1
    /\ trace = <<>>

DeterminePostType ==
    /\ arg.fn = "determine_post_type"
    /\ Return("determine_post_type", determine_post_type(arg.post))

FormatDuration ==
    /\ arg.fn = "format_duration"
    /\ Return("format_duration", format_duration(arg.seconds))

DetectEmotions ==
    /\ arg.fn = "detect_emotions"
    /\ Return("detect_emotions",
              facebook_detect_emotions(arg.text, arg.reactions))

DeriveNext == DeterminePostType \/ FormatDuration \/ DetectEmotions

Derive == DeriveInit /\ [][DeriveNext]_vars

-----------------------------------------------------------------------------
(* src/main.py and src/services/*.py: the HTTP front end.  One request is  *)
(* one call of an endpoint function; the answer of the upstream API is an  *)
(* input of the request.                                                   *)

UpperChar(c) ==
    IF \E i \in 1..Len(LowerLetters) : SubSeq(LowerLetters, i, i) = c
    THEN LET i == CHOOSE i \in 1..Len(LowerLetters) : SubSeq(LowerLetters, i, i) = c
         IN  SubSeq(UpperLetters, i, i)
    ELSE c

\* s.capitalize()
Capitalize(s) ==
    IF s = "" THEN ""
    ELSE UpperChar(SubSeq(s, 1, 1)) \o Lower(SubSeq(s, 2, Len(s)))

\* the search method of each service class: the JSON of the response, or
\* an Exception in place of whatever requests raised
ServiceSearch(upstream) ==
    IF IsRaise(upstream) THEN Raise("Exception") ELSE upstream

\* await loop.run_in_executor(None, f, keyword): what f(keyword) returns
\* or raises
RunInExecutor(x) == x

\* "await f(keyword)" for a plain method f (none of the service methods is
\* a coroutine function): the exception f raised; else the TypeError of
\* awaiting the dict it returned
Await(x) == IF IsRaise(x) THEN x ELSE Raise("TypeError")

\* the fetch of each platform as the endpoints write it: facebook goes
\* through the executor, the other four await the method's return value
Fetch(p, upstream) ==
    IF p = "facebook" THEN RunInExecutor(ServiceSearch(upstream))
    ELSE Await(ServiceSearch(upstream))

EventFetch(p) == <<"fetch", p>>

\* x[k] = value
SetItem(x, k, value) ==
    IF IsRaise(x) THEN x
    ELSE IF x.t # "dict" THEN Raise("TypeError")
    ELSE Dict([j \in DOMAIN x.v \cup {k} |-> IF j = k THEN value ELSE x.v[j]])

\* doc['_source']['source_socmed'] = source_socmed
TagDocument(doc, source_socmed) ==
    LET source == Item(doc, "_source")
    IN  IF IsRaise(source) THEN source
        ELSE IF IsRaise(SetItem(source, "source_socmed", Str(source_socmed)))
        THEN SetItem(source, "source_socmed", Str(source_socmed))
        ELSE SetItem(doc, "_source",
                     SetItem(source, "source_socmed", Str(source_socmed)))

\* "for doc in parsed_documents: doc['_source']['source_socmed'] = ...":
\* the documents after the loop, or the exception that ended it
RECURSIVE TagLoop(_, _, _, _)
TagLoop(parsed_documents, i, source_socmed, tagged) ==
    IF i > Len(parsed_documents) THEN List(tagged)
    ELSE LET doc == TagDocument(parsed_documents[i], source_socmed)
         IN  IF IsRaise(doc) THEN doc
             ELSE TagLoop(parsed_documents, i + 1, source_socmed,
                          Append(tagged, doc))

\* HTTPException(status_code=..., detail=...)
HTTPException(status_code, detail) ==
    [t |-> "raise", v |-> "HTTPException", status_code |-> status_code,
     detail |-> detail]

\* str(e): the model's exceptions carry no message, the name of the type
\* stands for it; an HTTPException also shows its status code and detail
StrOfException(e) ==
    IF e.v = "HTTPException"
    THEN Str(ToString(e.status_code) \o ": " \o e.detail.v)
    ELSE Str(e.v)

\* "except Exception as e: raise HTTPException(status_code=500,
\* detail=str(e))" around a handler body: HTTPException is an Exception,
\* so one raised inside the body is caught as well
Except500(x) ==
    IF IsRaise(x) THEN HTTPException(500, StrOfException(x)) ELSE x

\* the message of each search endpoint
EndpointMessage(p) ==
    CASE p = "facebook" -> "Facebook search results retrieved and parsed"
      [] p = "instagram" -> "Instagram search results retrieved and parsed"
      [] p = "twitter" -> "Twitter trending topics retrieved and parsed"
      [] p = "youtube" -> "YouTube video details retrieved and parsed"
      [] p = "tiktok" -> "TikTok trending content retrieved and parsed"

\* APIResponse(status="success", message=..., data=...)
APIResponse(message, data) ==
    [t |-> "APIResponse", v |-> [status |-> "success", message |-> message,
                                 data |-> data]]

\* the tagging loop over what the parser returned
TagAll(parsed_documents, source_socmed) ==
    IF IsRaise(parsed_documents) THEN parsed_documents
    ELSE TagLoop(parsed_documents.v, 1, source_socmed, <<>>)

\* "return APIResponse(...)" of a search endpoint, unless the loop raised
SearchReturn(p, result, tagged) ==
    IF IsRaise(tagged) THEN tagged
    ELSE APIResponse(EndpointMessage(p),
                     Dict([raw_data |-> result,
                           parsed_documents |-> tagged,
                           total_documents |-> Num(Len(tagged.v))]))

\* the body of a search endpoint after the fetch; a result is
\* [ret: the value returned or the exception raised,
\*  trace: the fetches made and parsers invoked so far]
SearchBody(p, result, tr) ==
    IF IsRaise(result) THEN [ret |-> result, trace |-> tr]
    ELSE [ret |-> SearchReturn(p, result, TagAll(RunParser(p, result), p)),
          trace |-> Append(tr, EventParser(p))]

\* the except clause applied to the result of a body
Caught500(r) == [ret |-> Except500(r.ret), trace |-> r.trace]

\* get_facebook_page_get, get_instagram_user_get, get_twitter_trending_get,
\* get_youtube_video_get, get_tiktok_trending
SearchEndpoint(p, upstream) ==
    Caught500(SearchBody(p, Fetch(p, upstream), <<EventFetch(p)>>))

\* "return APIResponse(...)" of get_parsed_data, unless the loop raised
ParsedReturn(platform_lower, keyword, tagged) ==
    IF IsRaise(tagged) THEN tagged
    ELSE APIResponse(Capitalize(platform_lower)
                         \o " search results parsed successfully",
                     Dict([platform |-> Str(platform_lower),
                           source_socmed |-> Str(platform_lower),
                           documents |-> tagged,
                           total_documents |-> Num(Len(tagged.v)),
                           search_keyword |-> Str(keyword)]))

\* the body of get_parsed_data once the platform is one of the five
ParsedBody(platform_lower, keyword, result, tr) ==
    IF IsRaise(result) THEN [ret |-> result, trace |-> tr]
    ELSE [ret |-> ParsedReturn(platform_lower, keyword,
                      TagAll(RunParser(platform_lower, result), platform_lower)),
          trace |-> Append(tr, EventParser(platform_lower))]

\* the if/elif chain of get_parsed_data on the lower-cased platform
ParsedChain(platform_lower, keyword, upstream) ==
    IF \E i \in 1..Len(Platforms) : Platforms[i] = platform_lower
    THEN ParsedBody(platform_lower, keyword, Fetch(platform_lower, upstream),
                    <<EventFetch(platform_lower)>>)
    ELSE [ret |-> HTTPException(400, Str("Unsupported platform: "
                                         \o platform_lower)),
          trace |-> <<>>]

get_parsed_data(path_platform, keyword, upstream) ==
    Caught500(ParsedChain(Lower(path_platform), keyword, upstream))

\* the answer the framework sends: the model returned with status 200, or
\* the status and detail of the HTTPException the endpoint raised
HttpResponse(ret) ==
    IF IsRaise(ret)
    THEN [t |-> "response", v |-> [status_code |-> ret.status_code,
                                   detail |-> ret.detail]]
    ELSE [t |-> "response", v |-> [status_code |-> 200, body |-> ret.v]]

\* what the upstream API may answer: responses with and without items, a
\* JSON null, and a failed request
Upstreams(p) ==
    TextedRaws(p) \cup {SampleRaw(p), EmptyDict, Null, Raise("RequestException")}

Keywords == {"news"}

\* the platform segment of a /parsed/{platform}/search/{keyword} path
PathPlatforms ==
    PlatformSet \cup {Capitalize(p) : p \in PlatformSet}
    \cup {"linkedin", "TIKTOK", "faceboo", "x"}

SearchEndpoints ==
    [facebook |-> "get_facebook_page_get", instagram |-> "get_instagram_user_get",
     twitter |-> "get_twitter_trending_get", youtube |-> "get_youtube_video_get",
     tiktok |-> "get_tiktok_trending"]

FrontInit ==
    /\ now = 1700000000
    /\ \/ /\ platform \in PlatformSet
          /\ arg \in [fn : {SearchEndpoints[platform]}, keyword : Keywords]
       \/ /\ platform \in PathPlatforms
          /\ arg \in [fn : {"get_parsed_data"}, keyword : Keywords]
    /\ raw \in (IF Lower(platform) \in PlatformSet
                THEN Upstreams(Lower(platform)) ELSE {Null})
    /\ pc = "start"
    /\ call = "none"
    /\ out = Null
    /\ fs = NoFiles
    /\ all_results = <<>>
    /\ cursor = 1
    /\ trace = <<>>

\* one request answered: the endpoint's result and the calls it made
Answer(name, r) ==
    /\ pc = "start"
    /\ pc' = "done"
    /\ call' = name
    /\ out' = HttpResponse(r.ret)
    /\ trace' = r.trace
    /\ UNCHANGED <<engineVars, arg, fs, all_results, cursor>>

GetFacebookPageGet ==
    /\ arg.fn = "get_facebook_page_get"
    /\ Answer(arg.fn, SearchEndpoint("facebook", raw))

GetInstagramUserGet ==
    /\ arg.fn = "get_instagram_user_get"
    /\ Answer(arg.fn, SearchEndpoint("instagram", raw))

GetTwitterTrendingGet ==
    /\ arg.fn = "get_twitter_trending_get"
    /\ Answer(arg.fn, SearchEndpoint("twitter", raw))

GetYoutubeVideoGet ==
    /\ arg.fn = "get_youtube_video_get"
    /\ Answer(arg.fn, SearchEndpoint("youtube", raw))

GetTiktokTrending ==
    /\ arg.fn = "get_tiktok_trending"
    /\ Answer(arg.fn, SearchEndpoint("tiktok", raw))

GetParsedData ==
    /\ arg.fn = "get_parsed_data"
    /\ Answer(arg.fn, get_parsed_data(platform, arg.keyword, raw))

FrontNext ==
    \/ GetFacebookPageGet \/ GetInstagramUserGet \/ GetTwitterTrendingGet
    \/ GetYoutubeVideoGet \/ GetTiktokTrending \/ GetParsedData

Front == FrontInit /\ [][FrontNext]_vars

-----------------------------------------------------------------------------
(* src/parse_all.py: generate_summary_report.  A mapping whose keys are    *)
(* not all strings (the two breakdowns) is a function from Python values   *)
(* to counts; platform_stats is the sequence of its <<platform, stats>>    *)
(* pairs in insertion order.                                               *)

\* {'positive': 0, 'negative': 0, 'neutral': 0}
InitialSentiments ==
    (Str("positive") :> 0) @@ (Str("negative") :> 0) @@ (Str("neutral") :> 0)

\* counts[key] = counts.get(key, 0) + 1
Tally(counts, key) ==
    IF key \in DOMAIN counts THEN [counts EXCEPT ![key] = @ + 1]
    ELSE counts @@ (key :> 1)

\* the counters of a platform's metrics that the report adds up
EngagementOf(p, metrics) ==
    CASE p = "twitter" -> PyAdd(Get(metrics, "like_count", Num(0)),
                                Get(metrics, "retweet_count", Num(0)))
      [] p = "instagram" -> PyAdd(Get(metrics, "like_count", Num(0)),
                                  Get(metrics, "comment_count", Num(0)))
      [] p = "tiktok" -> PyAdd(Get(metrics, "like_count", Num(0)),
                               Get(metrics, "share_count", Num(0)))
      [] p = "facebook" -> PyAdd(Get(metrics, "reactions_count", Num(0)),
                                 Get(metrics, "comments_count", Num(0)))
      [] p = "youtube" -> PyAdd(Num(0), Get(metrics, "view_count", Num(0)))
      [] OTHER -> Num(0)

\* the body of "for doc in documents" once its three reads are made
\* st is [exc: None or the exception that left the loop, sentiments,
\* languages, total_engagement]
CountDocument(st, sentiment, lang, engagement) ==
    IF IsRaise(sentiment) THEN [st EXCEPT !.exc = sentiment]
    ELSE IF sentiment.t \in {"list", "dict"}
         THEN [st EXCEPT !.exc = Raise("TypeError")]
    ELSE IF IsRaise(lang) THEN [st EXCEPT !.exc = lang]
    ELSE IF lang.t \in {"list", "dict"}
         THEN [st EXCEPT !.exc = Raise("TypeError")]
    ELSE IF IsRaise(engagement) THEN [st EXCEPT !.exc = engagement]
    ELSE [st EXCEPT !.sentiments = Tally(@, sentiment),
                    !.languages = Tally(@, lang),
                    !.total_engagement = @ + engagement.v]

\* the reads of one document: all three go through doc.get('_source', {})
SummaryDocument(p, st, source) ==
    CountDocument(st,
                  Get(source, "sentiment", Str("neutral")),
                  Get(source, "language", Str("unknown")),
                  EngagementOf(p, Get(source, "metrics", EmptyDict)))

RECURSIVE SummaryLoop(_, _, _, _)
SummaryLoop(p, documents, i, st) ==
    IF i > Len(documents) THEN st
    ELSE IF IsRaise(st.exc) THEN st
    ELSE SummaryLoop(p, documents, i + 1,
             SummaryDocument(p, st, Get(documents[i], "_source", EmptyDict)))

\* round(total_engagement / len(documents), 2), kept as the two integers
Round2Ratio(total_engagement, n) == [t |-> "ratio", v |-> <<total_engagement, n>>]

\* platform_stats[platform] of a non-empty document list, from the loop's end state
StatsOf(st, n) ==
    [exc |-> st.exc,
     document_count |-> n,
     sentiment_breakdown |-> st.sentiments,
     language_breakdown |-> st.languages,
     total_engagement |-> st.total_engagement,
     avg_engagement |-> Round2Ratio(st.total_engagement, n)]

EmptyStats ==
    [exc |-> Null,
     document_count |-> 0,
     sentiment_breakdown |-> InitialSentiments,
     language_breakdown |-> <<>>,
     total_engagement |-> 0,
     avg_engagement |-> Num(0)]

\* one iteration of "for platform, documents in results.items()"
PlatformStats(p, documents) ==
    IF ~Truthy(documents) THEN EmptyStats
    ELSE IF IsRaise(Iter(documents)) THEN [EmptyStats EXCEPT !.exc = Iter(documents)]
    ELSE StatsOf(SummaryLoop(p, Iter(documents).v, 1,
                             [exc |-> Null,
                              sentiments |-> InitialSentiments,
                              languages |-> <<>>,
                              total_engagement |-> 0]),
                 Len(Iter(documents).v))

\* platform_stats[platform] = {...}, unless the iteration raised
StoreStats(acc, p, stats) ==
    IF IsRaise(stats.exc) THEN [acc EXCEPT !.exc = stats.exc]
    ELSE [acc EXCEPT !.platform_stats =
              Append(@, <<p, [k \in DOMAIN stats \ {"exc"} |-> stats[k]]>>)]

\* "for platform, documents in results.items()"; acc is [exc: None or the
\* exception that left the loop, platform_stats]
RECURSIVE PlatformStatsLoop(_, _, _)
PlatformStatsLoop(results, i, acc) ==
    IF i > Len(results) THEN acc
    ELSE IF IsRaise(acc.exc) THEN acc
    ELSE PlatformStatsLoop(results, i + 1,
             StoreStats(acc, results[i][1],
                        PlatformStats(results[i][1], results[i][2])))

\* max(...) keeping the last of several maximal elements
RECURSIVE MaxLoop_last(_, _, _)
MaxLoop_last(platform_stats, i, best) ==
    IF i > Len(platform_stats) THEN best
    ELSE MaxLoop_last(platform_stats, i + 1,
             IF platform_stats[i][2].document_count
                    >= platform_stats[best][2].document_count
             THEN i ELSE best)

\* max(platform_stats.keys(), key=document_count): the scan replaces its
\* best element only by a strictly greater one
RECURSIVE MaxLoop(_, _, _)
MaxLoop(platform_stats, i, best) ==
    IF i > Len(platform_stats) THEN best
    ELSE MaxLoop(platform_stats, i + 1,
             IF platform_stats[i][2].document_count
                    > platform_stats[best][2].document_count
             THEN i ELSE best)

\* None also when no platform has a document
most_active_platform_idle_none(platform_stats) ==
    IF Len(platform_stats) = 0 THEN Null
    ELSE IF \A i \in 1..Len(platform_stats) :
                platform_stats[i][2].document_count = 0
    THEN Null
    ELSE Str(platform_stats[MaxLoop(platform_stats, 2, 1)][1])

most_active_platform(platform_stats) ==
    IF Len(platform_stats) = 0 THEN Null
    ELSE Str(platform_stats[MaxLoop(platform_stats, 2, 1)][1])

RECURSIVE SumTotalEngagement(_, _)
SumTotalEngagement(platform_stats, i) ==
    IF i > Len(platform_stats) THEN 0
    ELSE platform_stats[i][2].total_engagement
         + SumTotalEngagement(platform_stats, i + 1)

\* sum(len(docs) for docs in results.values())
RECURSIVE TotalDocuments(_, _)
TotalDocuments(results, i) ==
    IF i > Len(results) THEN 0
    ELSE Len(results[i][2].v) + TotalDocuments(results, i + 1)

\* the returned dict, as a record
Report(total_documents, platform_stats) ==
    [t |-> "report",
     v |-> [generated_at |-> NowIso,
            total_documents |-> total_documents,
            platforms |-> platform_stats,
            summary |->
                [most_active_platform |-> most_active_platform(platform_stats),
                 total_engagement |-> SumTotalEngagement(platform_stats, 1),
                 platforms_processed |->
                     Cardinality({i \in 1..Len(platform_stats) :
                                     platform_stats[i][2].document_count > 0})]]]

\* the report, or the exception raised while platform_stats was built
ReportOf(results, acc) ==
    IF IsRaise(acc.exc) THEN acc.exc
    ELSE Report(TotalDocuments(results, 1), acc.platform_stats)

generate_summary_report(results) ==
    ReportOf(results,
             PlatformStatsLoop(results, 1, [exc |-> Null, platform_stats |-> <<>>]))

-----------------------------------------------------------------------------
(* The report, generated for a mapping of parser outputs *)

MaxPlatforms == 3

\* the sequences of n distinct platforms
RECURSIVE PlatformOrders(_)
PlatformOrders(n) ==
    IF n = 0 THEN {<<>>}
    ELSE UNION {{Append(o, p) : p \in PlatformSet \ {o[i] : i \in 1..Len(o)}} :
                   o \in PlatformOrders(n - 1)}

\* the sequences of <<platform, raw response>> pairs over the first n
\* platforms of order o
RECURSIVE ResponsesUpTo(_, _)
ResponsesUpTo(o, n) ==
    IF n = 0 THEN {<<>>}
    ELSE {Append(r, <<o[n], d>>) :
             r \in ResponsesUpTo(o, n - 1), d \in TextedRaws(o[n])}

ResponsesOver(o) == ResponsesUpTo(o, Len(o))

\* the caller holds one raw response for each of some platforms, builds the
\* mapping platform -> documents with the parsers, and asks for its report
SummaryInit ==
    /\ now = 1700000000
    /\ platform = "none"
    /\ raw = Null
    /\ pc = "start"
    /\ call = "none"
    /\ out = Null
    /\ fs = NoFiles
    /\ all_results = <<>>
    /\ cursor = 1
    /\ trace = <<>>
    /\ \E n \in 0..MaxPlatforms : \E o \in PlatformOrders(n) :
           arg \in [fn : {"generate_summary_report"}, responses : ResponsesOver(o)]

\* results[platform] = the documents of the platform's parser
ParseResponse ==
    /\ arg.fn = "generate_summary_report"
    /\ pc = "start"
    /\ cursor <= Len(arg.responses)
    /\ all_results' = Append(all_results,
                             <<arg.responses[cursor][1],
                               RunParser(arg.responses[cursor][1],
                                         arg.responses[cursor][2])>>)
    /\ cursor' = cursor + 1
    /\ UNCHANGED <<engineVars, pc, call, out, arg, fs, trace>>

GenerateSummaryReport ==
    /\ arg.fn = "generate_summary_report"
    /\ cursor > Len(arg.responses)
    /\ Return("generate_summary_report", generate_summary_report(all_results))

SummaryNext == ParseResponse \/ GenerateSummaryReport

Summary == SummaryInit /\ [][SummaryNext]_vars

-----------------------------------------------------------------------------
(* Vocabulary of the properties *)

Done(name) == pc = "done" /\ call = name

\* the canonical fields of a document (tiktok nests them under _source)
Source(doc) == IF "_source" \in DOMAIN doc.v THEN doc.v["_source"] ELSE doc

\* safe navigation: x[k] when x is a mapping that has k, else None
D(x, k) == IF x.t = "dict" /\ k \in DOMAIN x.v THEN x.v[k] ELSE Null

Elems(x) == IF x.t = "list" THEN {x.v[i] : i \in 1..Len(x.v)} ELSE {}

IsStr(x, text) == x.t = "str" /\ x.v = text

IsMapping(x) == x.t = "dict"

\* the items a raw response holds where the platform's walk looks for them
FbMatching(data) ==
    {e \in Elems(D(D(data, "data"), "results")) : IsStr(D(e, "type"), "post")}

YtMatching(data) ==
    {D(e, "video") : e \in {e \in Elems(D(D(data, "data"), "contents")) :
                               IsStr(D(e, "type"), "video") /\ Truthy(D(e, "video"))}}

TkMatching(data) ==
    {D(e, "item") : e \in {e \in Elems(D(D(data, "data"), "data")) :
                              /\ D(e, "type").t \in {"num", "bool"}
                              /\ PyEq(D(e, "type"), Num(1))
                              /\ Truthy(D(e, "item"))}}

IgMatching(data) ==
    LET layouts == {D(sec, "layout_content") :
                       sec \in Elems(D(D(D(data, "data"), "media_grid"), "sections"))}
        gridItems == UNION {Elems(D(D(D(l, "one_by_two_item"), "clips"), "items"))
                            \cup Elems(D(l, "two_by_two_items")) : l \in layouts}
    IN  {D(i, "media") : i \in {i \in gridItems : Truthy(D(i, "media"))}}
        \cup UNION {Elems(D(l, "medias")) : l \in layouts}

TwMatching(data) ==
    LET instructions ==
            Elems(D(D(D(D(data, "data"), "result"), "timeline"), "instructions"))
        contents ==
            {D(e, "content") :
                e \in UNION {Elems(D(i, "entries")) :
                                i \in {i \in instructions :
                                          IsStr(D(i, "type"), "TimelineAddEntries")}}}
        itemContents ==
            {D(c, "itemContent") :
                c \in {c \in contents : IsStr(D(c, "entryType"), "TimelineTimelineItem")}}
            \cup {D(D(i, "item"), "itemContent") :
                     i \in UNION {Elems(D(c, "items")) :
                                     c \in {c \in contents :
                                               IsStr(D(c, "entryType"),
                                                     "TimelineTimelineModule")}}}
    IN  {t \in {D(D(ic, "tweet_results"), "result") :
                   ic \in {ic \in itemContents :
                              IsStr(D(ic, "itemType"), "TimelineTweet")}} :
            Truthy(t)}

Matching(p, data) ==
    CASE p = "twitter" -> TwMatching(data)
      [] p = "instagram" -> IgMatching(data)
      [] p = "tiktok" -> TkMatching(data)
      [] p = "facebook" -> FbMatching(data)
      [] p = "youtube" -> YtMatching(data)

Extractors ==
    {"extract_tweets_from_timeline", "extract_media_from_grid",
     "extract_posts_from_data", "extract_videos_from_data"}

Parsers ==
    {"parse_twitter_json", "parse_instagram_json", "parse_tiktok_json",
     "parse_facebook_json", "parse_youtube_json"}

\* the extractor and the builder of a platform
Extract(p, data) ==
    CASE p = "twitter" -> extract_tweets_from_timeline(data)
      [] p = "instagram" -> extract_media_from_grid(data)
      [] p = "tiktok" -> tiktok_extract_videos_from_data(data)
      [] p = "facebook" -> extract_posts_from_data(data)
      [] p = "youtube" -> youtube_extract_videos_from_data(data)

BuildDocument(p, item) ==
    CASE p = "twitter" -> create_tweet_document(item)
      [] p = "instagram" -> create_media_document(item)
      [] p = "tiktok" -> tiktok_create_video_document(item)
      [] p = "facebook" -> create_post_document(item)
      [] p = "youtube" -> youtube_create_video_document(item)

-----------------------------------------------------------------------------
(* C1 *)

\* the indexes of the items whose build returns a document
Kept(p, items) ==
    {i \in 1..Len(items) : BuildDocument(p, items[i]).t # "null"}

\* C1: the list a parser returns is exactly the documents of the extracted
\* items whose build succeeded, in the order of the items: an item whose
\* build returns None is dropped, the items before and after it are still
\* built and emitted, and no item yields more than one document.
C1_ParserEmitsBuiltDocumentsInOrder ==
    (pc = "done" /\ call \in Parsers) =>
        LET items == Extract(platform, raw).v
            ok == Kept(platform, items)
        IN  /\ out.t = "list"
            /\ Len(out.v) = Cardinality(ok)
            /\ \A i \in ok :
                  out.v[Cardinality({j \in ok : j <= i})]
                      = BuildDocument(platform, items[i])

\* a batch whose middle item fails to build and whose outer items are emitted
C1_Witness ==
    /\ Done("parse_facebook_json")
    /\ LET items == extract_posts_from_data(raw).v
       IN  /\ Len(items) = 3
           /\ Kept("facebook", items) = {1, 3}
           /\ Len(out.v) = 2

-----------------------------------------------------------------------------
(* C2 *)

HasRestId(tweet) == Truthy(D(tweet, "rest_id"))

\* C2: a tweet whose rest_id is absent or empty gives no document, the
\* other tweets of the batch give the documents they give without it, and
\* no emitted twitter document has an empty platform_id.
C2_IdlessTweetDroppedAlone ==
    Done("parse_twitter_json") =>
        LET tweets == extract_tweets_from_timeline(raw).v
            others == SelectSeq(tweets, HasRestId)
        IN  /\ \A i \in 1..Len(tweets) :
                  ~HasRestId(tweets[i]) =>
                      /\ create_tweet_document(tweets[i]) = Null
                      /\ \A k \in 1..Len(out.v) :
                            D(out.v[k], "raw_data") # tweets[i]
            /\ out = parse_twitter_json(TwWrap(List(<<TwAdd(List(
                         [i \in 1..Len(others) |-> TwEntry(others[i])]))>>)))
            /\ Len(out.v) = Cardinality(Kept("twitter", others))
            /\ \A k \in 1..Len(out.v) : Truthy(D(out.v[k], "platform_id"))

\* an id-less tweet between two tweets that are emitted
C2_Witness ==
    /\ Done("parse_twitter_json")
    /\ LET tweets == extract_tweets_from_timeline(raw).v
       IN  /\ Len(tweets) = 3
           /\ HasRestId(tweets[1]) /\ ~HasRestId(tweets[2]) /\ HasRestId(tweets[3])
           /\ Len(out.v) = 2

-----------------------------------------------------------------------------
(* C3 *)

\* the raw response without the entries of the walked list that are not
\* mappings (facebook results, youtube contents, tiktok data, instagram
\* sections, twitter entries of the first instruction)
WithoutAnomalies(p, data) ==
    LET clean(x) == IF x.t = "list" THEN List(SelectSeq(x.v, IsMapping)) ELSE x
        instructions == D(D(D(D(data, "data"), "result"), "timeline"), "instructions")
    IN  CASE p = "facebook" /\ D(D(data, "data"), "results").t = "list" ->
                FbWrap(clean(D(D(data, "data"), "results")))
          [] p = "youtube" /\ D(D(data, "data"), "contents").t = "list" ->
                YtWrap(clean(D(D(data, "data"), "contents")))
          [] p = "tiktok" /\ D(D(data, "data"), "data").t = "list" ->
                TkWrap(clean(D(D(data, "data"), "data")))
          [] p = "instagram"
             /\ D(D(D(data, "data"), "media_grid"), "sections").t = "list" ->
                IgWrap(clean(D(D(D(data, "data"), "media_grid"), "sections")))
          [] p = "twitter" /\ instructions.t = "list" /\ Len(instructions.v) = 1
             /\ D(instructions.v[1], "entries").t = "list" ->
                TwWrap(List(<<TwAdd(clean(D(instructions.v[1], "entries")))>>))
          [] OTHER -> data

\* C3: an entry of the walked list that is not a mapping is skipped alone:
\* the extractor returns what it returns on the list without that entry.
C3_AnomalousEntrySkippedAlone ==
    (pc = "done" /\ call \in Extractors) =>
        out = Extract(platform, WithoutAnomalies(platform, raw))

-----------------------------------------------------------------------------
(* C4 *)

\* C4: on a raw response with no matching item an extractor returns the
\* empty list: not None, and no exception.
C4_NoMatchGivesEmptyList ==
    (pc = "done" /\ call \in Extractors /\ Matching(platform, raw) = {}) =>
        out = EmptyList

\* a null in place of the nested mapping
C4_Witness ==
    /\ Done("extract_media_from_grid")
    /\ raw = Dict([data |-> Dict([media_grid |-> Null])])
    /\ out = EmptyList

-----------------------------------------------------------------------------
(* C5 *)

\* the raw responses of one item whose epoch field is unusable or absent
UnusableTimeRaws(p) ==
    CASE p = "facebook" ->
            {FbWrap(List(<<Dict(FbPost("p5") @@ [timestamp |-> x])>>)) :
                x \in UnusableTimes}
            \cup {FbWrap(List(<<Dict(FbPost("p2"))>>))}
      [] p = "instagram" ->
            {IgWrap(List(<<IgLayout(Dict([medias |->
                 List(<<Dict(IgMedia("m9") @@ [taken_at |-> x])>>)]))>>)) :
                x \in UnusableTimes}
            \cup {IgWrap(List(<<IgLayout(Dict([medias |->
                      List(<<Dict(IgMedia("m11"))>>)]))>>))}
      [] p = "tiktok" ->
            {TkWrap(List(<<TkEntry(Dict(TkVideo("v6") @@ [createTime |-> x]))>>)) :
                x \in UnusableTimes}
            \cup {TkWrap(List(<<TkEntry(Dict(TkVideo("v2")))>>))}
      [] OTHER -> {}

\* C5: an item whose unix-epoch time is unusable still yields a document,
\* and the timestamp of that document is the current time.
C5_UnusableTimeFallsBackToNow ==
    (pc = "done" /\ call \in Parsers /\ raw \in UnusableTimeRaws(platform)) =>
        /\ Len(out.v) = 1
        /\ D(Source(out.v[1]), "timestamp") = NowIso

-----------------------------------------------------------------------------
(* C6 *)

\* the seconds a relative time text stands for
RelativeSeconds(text) ==
    CASE text = "3 days ago" -> 3 * SecondsPerDay
      [] text = "1 day ago" -> SecondsPerDay
      [] text = "2 weeks ago" -> 14 * SecondsPerDay
      [] text = "5 months ago" -> 150 * SecondsPerDay
      [] text = "1 year ago" -> 365 * SecondsPerDay
      [] text = "4 hours ago" -> 4 * 3600
      [] text = "Streamed 12 minutes ago" -> 12 * 60
      [] text = "0 days ago" -> 0

\* C6: a video published "N units ago" gets the ISO form of the current
\* time minus N units, which for N >= 1 is not the current time.
C6_RelativeTimeIsSubtracted ==
    \A text \in RelativeTimes :
        (Done("parse_youtube_json")
         /\ raw = YtWrap(List(<<YtEntry(Dict(YtVideo("y6") @@
                                  [publishedTimeText |-> Str(text)]))>>))) =>
            /\ Len(out.v) = 1
            /\ D(out.v[1], "timestamp") = Iso(now - RelativeSeconds(text))
            /\ RelativeSeconds(text) > 0 => D(out.v[1], "timestamp") # NowIso

-----------------------------------------------------------------------------
(* C7 *)

\* the strings of TimestampStrings that are in the layout, with the ISO
\* text of each
LayoutIso(text) ==
    CASE text = "Wed Oct 05 19:55:34 +0000 2022" ->
            <<2022, 10, 5, 19, 55, 34, "+00:00">>
      [] text = "Sat Jan 01 00:00:00 +0700 2022" ->
            <<2022, 1, 1, 0, 0, 0, "+07:00">>
      [] text = "wed oct 5 9:5:4 -0530 2022" ->
            <<2022, 10, 5, 9, 5, 4, "-05:30">>
      [] text = "Thu Feb 29 23:59:59 Z 2024" ->
            <<2024, 2, 29, 23, 59, 59, "+00:00">>
      [] text = "Wed  Oct 05 19:55:34 +0000 2022" ->
            <<2022, 10, 5, 19, 55, 34, "+00:00">>
      [] OTHER -> <<>>

\* C7: a created_at in the layout becomes the ISO text of the same instant
\* with its offset; any other string becomes the current time, and the
\* tweet is emitted either way.
C7_TwitterTimestampParsedOrNow ==
    \A text \in TimestampStrings :
        (Done("parse_twitter_json")
         /\ raw = TwWrap(List(<<TwAdd(List(<<TwEntry(Dict(TwTweet("t7") @@
                       [legacy |-> TwLegacy(text)]))>>))>>))) =>
            /\ Len(out.v) = 1
            /\ D(out.v[1], "timestamp").t = "iso"
            /\ D(out.v[1], "timestamp") =
                  IF LayoutIso(text) # <<>>
                  THEN [t |-> "iso", v |-> LayoutIso(text)]
                  ELSE NowIso

\* the scenario of the specification
C7_Witness ==
    /\ Done("parse_twitter_json")
    /\ Len(out.v) = 1
    /\ D(D(out.v[1], "raw_data"), "rest_id") = Str("t7")
    /\ D(out.v[1], "created_at") = Str("Wed Oct 05 19:55:34 +0000 2022")
    /\ D(out.v[1], "timestamp").v = <<2022, 10, 5, 19, 55, 34, "+00:00">>

-----------------------------------------------------------------------------
(* C8 *)

\* what the batch stores for the example file at position i
BatchEntry(i) ==
    LET content == fs[ExamplePath(i)]
    IN  IF content.t \in {"missing", "invalid"} THEN EmptyList
        ELSE CASE Platforms[i] = "twitter" -> parse_twitter_json(content)
               [] Platforms[i] = "instagram" -> parse_instagram_json(content)
               [] Platforms[i] = "tiktok" -> parse_tiktok_json(content)
               [] Platforms[i] = "facebook" -> parse_facebook_json(content)
               [] Platforms[i] = "youtube" -> parse_youtube_json(content)

\* the batch so far: an entry for each platform visited, in the order of
\* the table, holding what the platform's file gives; a finished call has
\* visited all five and returns exactly these entries
C8_BatchSafe ==
    arg.fn = "parse_all_examples" =>
        /\ cursor = Len(all_results) + 1
        /\ Len(all_results) <= 5
        /\ \A i \in 1..Len(all_results) :
              /\ all_results[i][1] =
                    <<"twitter", "instagram", "tiktok", "facebook", "youtube">>[i]
              /\ all_results[i][2] = BatchEntry(i)
        /\ pc = "done" => Len(all_results) = 5 /\ out = List(all_results)

\* a step of the batch either stores the entry of the next platform and
\* stays in the loop, or, all five being stored, returns
C8_BatchAdvances ==
    arg.fn = "parse_all_examples" =>
        \/ /\ Len(all_results) < 5
           /\ Len(all_results') = Len(all_results) + 1
           /\ SubSeq(all_results', 1, Len(all_results)) = all_results
           /\ pc' = "start"
        \/ /\ Len(all_results) = 5
           /\ all_results' = all_results
           /\ pc' = "done"

\* C8: parse_all_examples terminates, and its result has an entry for each
\* of the five platforms, stored in the order twitter, instagram, tiktok,
\* facebook, youtube: the empty list for a platform whose file is missing
\* or does not load, and the parsed documents for every other platform,
\* whatever happened to the platforms before it.  Termination is the
\* progress of every step: each stores one more entry, none ends the call
\* before the fifth, and the step after the fifth returns.
C8_BatchIsolatesPlatformFailures ==
    []C8_BatchSafe /\ [][C8_BatchAdvances]_vars

\* the first two platforms fail and the third still gets its documents
C8_Witness ==
    /\ Done("parse_all_examples")
    /\ fs[ExamplePath(1)] = Invalid
    /\ fs[ExamplePath(2)] = Missing
    /\ Len(all_results[3][2].v) > 0
    /\ all_results[1][2] = EmptyList

-----------------------------------------------------------------------------
(* C9 *)

\* C9: parse_platform_data raises the unsupported-platform error, without
\* invoking a parser, for a name that is not one of the five registry keys,
\* and returns the result of the named platform's parser otherwise.
C9_DispatchOrUnsupported ==
    Done("parse_platform_data") =>
        IF arg.platform.v \in {"twitter", "instagram", "tiktok", "facebook", "youtube"}
        THEN /\ trace = <<EventParser(arg.platform.v)>>
             /\ out = CASE arg.platform.v = "twitter" -> parse_twitter_json(arg.data)
                        [] arg.platform.v = "instagram" -> parse_instagram_json(arg.data)
                        [] arg.platform.v = "tiktok" -> parse_tiktok_json(arg.data)
                        [] arg.platform.v = "facebook" -> parse_facebook_json(arg.data)
                        [] arg.platform.v = "youtube" -> parse_youtube_json(arg.data)
        ELSE /\ out = Raise("ValueError")
             /\ trace = <<>>

\* an unsupported name that differs from a key only by case
C9_Witness ==
    /\ Done("parse_platform_data")
    /\ arg.platform = Str("Twitter")
    /\ out = Raise("ValueError")

-----------------------------------------------------------------------------
(* C10 *)

\* the platform each path of DetectPaths resolves to, "" for none
DetectedFor(file_path) ==
    CASE file_path = "dl/Twitter_dump.json" -> "twitter"
      [] file_path = "tiktok_twitter.json" -> "twitter"
      [] file_path = "data.json" -> ""
      [] file_path = "YOUTUBE.facebook.json" -> "facebook"
      [] file_path = "instagram/feed.json" -> ""
      [] file_path = "x/my-TikTok.JSON" -> "tiktok"
      [] file_path = "facebook" -> "facebook"
      [] file_path = "insta_gram.json" -> ""
      [] file_path = "youtube_tiktok_instagram.json" -> "instagram"

\* C10: without a platform, parse_file takes the first platform name, in
\* the order twitter, instagram, tiktok, facebook, youtube, that is a
\* substring of the lower-cased base name, and raises before opening the
\* file when there is none.
C10_FirstRegistryMatchWins ==
    (Done("parse_file") /\ arg.platform = Null) =>
        IF DetectedFor(arg.file_path) = ""
        THEN out = Raise("ValueError") /\ trace = <<>>
        ELSE /\ trace[1] = EventOpen(arg.file_path)
             /\ fs[arg.file_path].t \in {"missing", "invalid"} =>
                   IsRaise(out) /\ Len(trace) = 1
             /\ fs[arg.file_path].t \notin {"missing", "invalid"} =>
                   /\ trace = <<EventOpen(arg.file_path),
                                EventParser(DetectedFor(arg.file_path))>>
                   /\ out.t = "list"

\* a name holding two platform names, the later of the registry first
C10_Witness ==
    /\ Done("parse_file")
    /\ arg.platform = Null
    /\ arg.file_path = "tiktok_twitter.json"
    /\ trace = <<EventOpen("tiktok_twitter.json"), EventParser("twitter")>>

-----------------------------------------------------------------------------
(* Sentiment, language and category, as properties of the helpers *)

Words(list) == {list[i] : i \in 1..Len(list)}

\* the words of a list that occur in a text as substrings
Occurring(list, text) == {w \in Words(list) : Contains(text, w)}

\* the words of a list that occur in a text between spaces or text ends
OccurringPadded(list, text) ==
    {w \in Words(list) : Contains(" " \o text \o " ", " " \o w \o " ")}

\* C14: analyze_sentiment answers 'positive' when more positive-list words
\* than negative-list words occur in the lower-cased text, 'negative' when
\* fewer, 'neutral' when as many; the empty text gives 'neutral' on every
\* platform, twitter included.
C14_SentimentComparesWordCounts ==
    Done("analyze_sentiment") =>
        LET P == Cardinality(Occurring(positive_words(platform), Lower(arg.text.v)))
            N == Cardinality(Occurring(negative_words(platform), Lower(arg.text.v)))
        IN  /\ P > N => out = Str("positive")
            /\ N > P => out = Str("negative")
            /\ P = N => out = Str("neutral")
            /\ arg.text.v = "" => out = Str("neutral")

C14_Witness ==
    /\ Done("analyze_sentiment")
    /\ platform = "twitter"
    /\ arg.text.v = ""
    /\ out = Str("neutral")

\* the pieces of a text between single spaces
Pieces(text) == LET parts == Split(text, " ") IN {parts[i] : i \in 1..Len(parts)}

\* C15: a text made only of words of the platform's positive list gives
\* 'positive', one made only of words of its negative list gives 'negative',
\* one holding no word of either list gives 'neutral'; no word of one list
\* contains a word of the other.
C15_SentimentOfPureTexts ==
    /\ Done("analyze_sentiment") =>
          /\ (arg.text.v # "" /\ Pieces(arg.text.v) \subseteq Words(positive_words(platform)))
                => out = Str("positive")
          /\ (arg.text.v # "" /\ Pieces(arg.text.v) \subseteq Words(negative_words(platform)))
                => out = Str("negative")
          /\ (/\ Occurring(positive_words(platform), Lower(arg.text.v)) = {}
              /\ Occurring(negative_words(platform), Lower(arg.text.v)) = {})
                => out = Str("neutral")
    /\ pc = "start" =>
          \A a \in Words(positive_words(platform)),
             b \in Words(negative_words(platform)) :
              ~Contains(a, b) /\ ~Contains(b, a)

C15_Witness ==
    /\ Done("analyze_sentiment")
    /\ Cardinality(Pieces(arg.text.v)) = 2
    /\ Pieces(arg.text.v) \subseteq Words(negative_words(platform))
    /\ out = Str("negative")

\* the words of a list that detect_language of platform p finds in a text
Found(p, list, text) ==
    IF p = "facebook" THEN OccurringPadded(list, text) ELSE Occurring(list, text)

\* C16: detect_language answers 'unknown' for the empty text; otherwise 'id'
\* when more Indonesian-list than English-list words are found in the
\* lower-cased text, 'en' when fewer, 'mixed' when as many, none included.
C16_LanguageComparesWordCounts ==
    Done("detect_language") =>
        LET I == Cardinality(Found(platform, indonesian_words(platform),
                                   Lower(arg.text.v)))
            E == Cardinality(Found(platform, english_words(platform),
                                   Lower(arg.text.v)))
        IN  IF arg.text.v = "" THEN out = Str("unknown")
            ELSE /\ I > E => out = Str("id")
                 /\ E > I => out = Str("en")
                 /\ I = E => out = Str("mixed")

C16_Witness ==
    /\ Done("detect_language")
    /\ platform = "facebook"
    /\ arg.text.v = "island"
    /\ out = Str("mixed")

\* the positions of the buckets of platform p that have a keyword equal to a
\* lower-cased hashtag
HashtagBuckets(p, hashtags) ==
    LET lowered == {Lower(hashtags[j].v) : j \in 1..Len(hashtags)}
    IN  {i \in 1..Len(categories(p)) : Words(categories(p)[i][2]) \cap lowered # {}}

\* the positions of the buckets of platform p that have a keyword occurring
\* in the lower-cased text
TextBuckets(p, text) ==
    LET lowered == Lower(text)
    IN  {i \in 1..Len(categories(p)) : Occurring(categories(p)[i][2], lowered) # {}}

First(S) == CHOOSE i \in S : \A j \in S : i <= j

BucketName(p, i) == Str(categories(p)[i][1])

\* the hashtags and the text a classification is about: tiktok's function
\* is given both, youtube's is given title and description, and the
\* document's hashtags are those of the description
CallHashtags ==
    IF platform = "tiktok" THEN arg.hashtags.v
    ELSE extract_hashtags(arg.description).v

CallText ==
    IF platform = "tiktok" THEN arg.desc.v
    ELSE arg.title.v \o " " \o arg.description.v

\* C19 (as stated): in both classifiers a bucket matched by a hashtag wins,
\* the first declared one when several are matched, and before any bucket
\* matched only by the text.
C19_HashtagsBeforeText ==
    Done("determine_category") =>
        LET matched == HashtagBuckets(platform, CallHashtags)
        IN  matched # {} => out = BucketName(platform, First(matched))

\* C19 (amended): tiktok's determine_category returns the first declared
\* bucket matched by a hashtag, otherwise the first declared bucket matched
\* by the text; youtube's determine_category is given no hashtags and
\* returns the first declared bucket matched by the text "title description".
C19_CategoryOrder ==
    Done("determine_category") =>
        LET by_hashtag == IF platform = "tiktok"
                          THEN HashtagBuckets(platform, CallHashtags) ELSE {}
            by_text == TextBuckets(platform, CallText)
        IN  /\ by_hashtag # {} => out = BucketName(platform, First(by_hashtag))
            /\ (by_hashtag = {} /\ by_text # {})
                  => out = BucketName(platform, First(by_text))

C19_Witness ==
    /\ Done("determine_category")
    /\ platform = "tiktok"
    /\ LET by_hashtag == HashtagBuckets(platform, CallHashtags)
           by_text == TextBuckets(platform, CallText)
       IN  /\ Cardinality(by_hashtag) = 2
           /\ by_text # {}
           /\ First(by_text) < First(by_hashtag)
           /\ out = BucketName(platform, First(by_hashtag))

NoBucketMatches ==
    /\ HashtagBuckets(platform, CallHashtags) = {}
    /\ TextBuckets(platform, CallText) = {}

\* C20 (as stated): when no hashtag and no text matches any bucket the
\* category is 'general', whatever else the item holds.
C20_NoMatchIsGeneral ==
    (Done("determine_category") /\ NoBucketMatches) => out = Str("general")

\* C20 (amended): when no hashtag and no text matches any bucket, tiktok's
\* determine_category returns 'music' for an item whose music is marked
\* original and 'general' otherwise; youtube's returns 'general'.
C20_NoMatchIsGeneralOrOriginalMusic ==
    (Done("determine_category") /\ NoBucketMatches) =>
        out = IF platform = "tiktok"
                 /\ Truthy(Get(arg.music_info, "original", Bool(FALSE)))
              THEN Str("music")
              ELSE Str("general")

C20_Witness ==
    /\ Done("determine_category")
    /\ NoBucketMatches
    /\ platform = "tiktok"
    /\ arg.music_info = Dict([original |-> Bool(TRUE)])
    /\ arg.desc.v = "hello"
    /\ out = Str("music")

-----------------------------------------------------------------------------
(* The summary report *)

Reported == Done("generate_summary_report") /\ out.t = "report"

\* the stats the report holds for the i-th platform of the mapping
StatsAt(i) == out.v.platforms[i][2]

DocumentCount(i) == Len(all_results[i][2].v)

\* C11: most_active_platform is a platform with the greatest document_count
\* of the mapping, and the first such platform in the mapping's order.
C11_MostActiveIsFirstMaximum ==
    (Reported /\ Len(all_results) > 0) =>
        \E i \in 1..Len(all_results) :
            /\ out.v.summary.most_active_platform = Str(all_results[i][1])
            /\ StatsAt(i).document_count = DocumentCount(i)
            /\ \A j \in 1..Len(all_results) : DocumentCount(j) <= DocumentCount(i)
            /\ \A j \in 1..(i - 1) : DocumentCount(j) < DocumentCount(i)

C11_Witness ==
    /\ Reported
    /\ Len(all_results) = 3
    /\ DocumentCount(1) = 1
    /\ DocumentCount(2) = 2
    /\ DocumentCount(3) = 2
    /\ out.v.summary.most_active_platform = Str(all_results[2][1])

\* the documents of a list whose field k has value x
WithField(documents, k, x) ==
    {j \in 1..Len(documents) : HasKey(Source(documents[j]), k)
                               /\ Source(documents[j]).v[k] = x}

FieldValues(documents, k) ==
    {Source(documents[j]).v[k] :
        j \in {j \in 1..Len(documents) : HasKey(Source(documents[j]), k)}}

CountOf(breakdown, x) == IF x \in DOMAIN breakdown THEN breakdown[x] ELSE 0

\* a breakdown counts, for every value, the documents whose field k has it
CountsField(breakdown, documents, k) ==
    \A x \in FieldValues(documents, k) \cup DOMAIN breakdown :
        CountOf(breakdown, x) = Cardinality(WithField(documents, k, x))

\* C12: for every platform of the mapping, sentiment_breakdown counts for
\* each sentiment value the documents whose sentiment field has that value,
\* and language_breakdown does so for the language field.
C12_BreakdownsCountDocumentFields ==
    Reported =>
        \A i \in 1..Len(all_results) :
            /\ CountsField(StatsAt(i).sentiment_breakdown,
                           all_results[i][2].v, "sentiment")
            /\ CountsField(StatsAt(i).language_breakdown,
                           all_results[i][2].v, "language")

\* the platform's own counters of a document, added up
RECURSIVE SumOver(_, _, _)
SumOver(p, documents, j) ==
    IF j > Len(documents) THEN 0
    ELSE LET metrics == D(Source(documents[j]), "metrics")
             a == CASE p = "facebook" -> D(metrics, "reactions_count")
                    [] p = "youtube" -> D(metrics, "view_count")
                    [] OTHER -> D(metrics, "like_count")
             b == CASE p = "twitter" -> D(metrics, "retweet_count")
                    [] p = "instagram" -> D(metrics, "comment_count")
                    [] p = "tiktok" -> D(metrics, "share_count")
                    [] p = "facebook" -> D(metrics, "comments_count")
                    [] OTHER -> Null
         IN  (IF a.t = "num" THEN a.v ELSE 0) + (IF b.t = "num" THEN b.v ELSE 0)
             + SumOver(p, documents, j + 1)

RECURSIVE SumOfTotals(_)
SumOfTotals(i) ==
    IF i = 0 THEN 0 ELSE StatsAt(i).total_engagement + SumOfTotals(i - 1)

\* C13: each platform's total_engagement is the sum over its documents of
\* the platform's own counters of the document's metrics, and the global
\* total_engagement is the sum of the platforms' totals.
C13_EngagementSumsPlatformCounters ==
    Reported =>
        /\ \A i \in 1..Len(all_results) :
              StatsAt(i).total_engagement
                  = SumOver(all_results[i][1], all_results[i][2].v, 1)
        /\ out.v.summary.total_engagement = SumOfTotals(Len(all_results))

-----------------------------------------------------------------------------
(* Language, hashtags and mentions of the emitted documents *)

\* the documents a parser call has returned
Emitted ==
    IF pc = "done" /\ call \in Parsers /\ out.t = "list" THEN Elems(out) ELSE {}

LanguageValues == {Str("en"), Str("id"), Str("mixed"), Str("unknown")}

\* the two-wordlist guess of platform p for a text
GuessOf(p, text) ==
    LET I == Cardinality(Found(p, indonesian_words(p), Lower(text)))
        E == Cardinality(Found(p, english_words(p), Lower(text)))
    IN  IF text = "" THEN Str("unknown")
        ELSE IF I > E THEN Str("id")
        ELSE IF E > I THEN Str("en")
        ELSE Str("mixed")

\* C17: every emitted document has a language field, its value is one of
\* en, id, mixed, unknown, and it is the two-wordlist guess for the
\* document's content.
C17_LanguageIsGuessedFromContent ==
    \A doc \in Emitted :
        /\ HasKey(Source(doc), "language")
        /\ Source(doc).v["language"] \in LanguageValues
        /\ (platform \in LanguagePlatforms /\ D(Source(doc), "content").t = "str")
              => Source(doc).v["language"]
                     = GuessOf(platform, D(Source(doc), "content").v)

\* the positions of a text where a mark is followed by a word character
Starts(mark, text) ==
    {i \in 1..(Len(text) - 1) :
        SubSeq(text, i, i) = mark /\ IsWordChar(SubSeq(text, i + 1, i + 1))}

\* the word that follows position i: the longest run of word characters
TokenAt(text, i) ==
    LET e == CHOOSE e \in (i + 1)..Len(text) :
                 /\ \A k \in (i + 1)..e : IsWordChar(SubSeq(text, k, k))
                 /\ (e = Len(text) \/ ~IsWordChar(SubSeq(text, e + 1, e + 1)))
    IN  SubSeq(text, i + 1, e)

\* the words that follow a mark in a text, in first-seen order, case as
\* written, duplicates kept
Tokens(mark, text) ==
    LET S == Starts(mark, text)
    IN  [n \in 1..Cardinality(S) |->
            Str(TokenAt(text, CHOOSE i \in S : Cardinality({j \in S : j <= i}) = n))]

\* C18: in every emitted document, hashtags is the sequence of the '#word'
\* tokens of the document's own content, and mentions that of its '@word'
\* tokens.
C18_HashtagsAndMentionsScanContent ==
    \A doc \in Emitted :
        D(Source(doc), "content").t = "str" =>
            /\ D(Source(doc), "hashtags")
                   = List(Tokens("#", D(Source(doc), "content").v))
            /\ D(Source(doc), "mentions")
                   = List(Tokens("@", D(Source(doc), "content").v))

-----------------------------------------------------------------------------
(* The derived fields *)

\* the type the chain gives each sub-object, in the order of PostTypeKeys
PostTypes ==
    <<"video", "video", "image", "album", "link", "shared_post", "event">>

\* the positions of the sub-objects a post has and that are not empty
Present(post) ==
    {i \in 1..Len(PostTypeKeys) :
        /\ PostTypeKeys[i] \in DOMAIN post.v
        /\ post.v[PostTypeKeys[i]] \notin {EmptyDict, EmptyList, Str("")}}

\* C21: determine_post_type depends only on which of video, video_files,
\* image, album_preview, external_url, attached_post and attached_event
\* are present and non-empty: it gives the type of the first such one in
\* that order, 'text' when there is none; image with video is 'video',
\* external_url with album_preview is 'album'.
C21_PostTypeIsFirstPresent ==
    Done("determine_post_type") =>
        LET present == Present(arg.post)
        IN  /\ present = {} => out = Str("text")
            /\ present # {} =>
                   out = Str(PostTypes[CHOOSE i \in present :
                                          \A j \in present : i <= j])
            /\ {1, 3} \subseteq present => out = Str("video")
            /\ {4, 5} \subseteq present /\ present \cap {1, 2, 3} = {}
                   => out = Str("album")

C21_Witness ==
    /\ Done("determine_post_type")
    /\ Present(arg.post) = {3, 4, 5, 7}
    /\ "video" \in DOMAIN arg.post.v
    /\ out = Str("image")

\* the fields of a duration text, read as hours*3600 + minutes*60 + seconds
ReadBack(text) ==
    LET parts == Split(text, ":")
    IN  IF Len(parts) = 3
        THEN ToInt(parts[1]) * 3600 + ToInt(parts[2]) * 60 + ToInt(parts[3])
        ELSE ToInt(parts[1]) * 60 + ToInt(parts[2])

\* C22: format_duration of s >= 0 seconds is '00:00' for 0, the zero-padded
\* 'MM:SS' of s div 60 and s mod 60 below one hour (125 gives '02:05'), the
\* zero-padded 'HH:MM:SS' from one hour on, and its fields read back as
\* hours*3600 + minutes*60 + seconds give s.
C22_DurationText ==
    Done("format_duration") =>
        LET s == arg.seconds.v
            parts == Split(out.v, ":")
        IN  /\ out.t = "str"
            /\ s = 0 => out.v = "00:00"
            /\ s = 125 => out.v = "02:05"
            /\ s < 3600 =>
                   /\ Len(parts) = 2
                   /\ ToInt(parts[1]) = s \div 60
                   /\ ToInt(parts[2]) = s % 60
            /\ s >= 3600 =>
                   /\ Len(parts) = 3
                   /\ ToInt(parts[1]) = s \div 3600
                   /\ ToInt(parts[2]) = (s % 3600) \div 60
                   /\ ToInt(parts[3]) = s % 60
            /\ \A i \in 1..Len(parts) : Len(parts[i]) >= 2 /\ AllDigits(parts[i])
            /\ ReadBack(out.v) = s

C22_Witness ==
    /\ Done("format_duration")
    /\ arg.seconds = Num(3661)
    /\ out = Str("01:01:01")

\* the emotions whose keywords occur in a text
KeywordMatches(text) ==
    {e \in {"joy", "love", "anger", "sadness", "surprise", "fear", "humor"} :
        \E i \in 1..Len(emotion_keywords("facebook")) :
            /\ emotion_keywords("facebook")[i][1] = e
            /\ \E w \in Words(emotion_keywords("facebook")[i][2]) :
                   Contains(Lower(text), w)}

\* the count of one kind of reaction, 0 when the kind is absent
CountOfKind(reactions, kind) ==
    IF kind \in DOMAIN reactions.v THEN reactions.v[kind].v ELSE 0

\* the sum of all the counts
RECURSIVE TotalOf(_, _)
TotalOf(reactions, kinds) ==
    IF kinds = {} THEN 0
    ELSE LET k == CHOOSE k \in kinds : TRUE
         IN  reactions.v[k].v + TotalOf(reactions, kinds \ {k})

\* the reaction behind each emotion and its threshold in percent
ReactionRules ==
    {<<"love", "love", 30>>, <<"humor", "haha", 30>>, <<"surprise", "wow", 30>>,
     <<"anger", "angry", 20>>, <<"sadness", "sad", 20>>}

\* the emotions whose reaction has a share strictly above its threshold
ShareMatches(reactions) ==
    LET T == TotalOf(reactions, DOMAIN reactions.v)
    IN  {r[1] : r \in {r \in ReactionRules :
                          T > 0 /\ 100 * CountOfKind(reactions, r[2]) > r[3] * T}}

\* C23: detect_emotions gives, without duplicates, the emotions matched by
\* text keywords together with those whose reaction share is strictly above
\* 30% (love, humor, surprise) or 20% (anger, sadness) of the sum of all
\* counts; love 40 and like 60 with no keyword gives love and not humor; a
\* share of exactly the threshold adds nothing.
C23_EmotionsAreKeywordsAndShares ==
    Done("detect_emotions") =>
        /\ out = SetList({Str(e) : e \in KeywordMatches(arg.text.v)
                                       \cup ShareMatches(arg.reactions)})
        /\ (arg.reactions = Dict([love |-> Num(40), like |-> Num(60)])
            /\ KeywordMatches(arg.text.v) = {})
               => out = SetList({Str("love")})
        /\ (arg.reactions = Dict([like |-> Num(7), love |-> Num(3)])
            /\ KeywordMatches(arg.text.v) = {})
               => out = SetList({})
        /\ (arg.reactions = Dict([like |-> Num(8), angry |-> Num(2)])
            /\ KeywordMatches(arg.text.v) = {})
               => out = SetList({})

C23_Witness ==
    /\ Done("detect_emotions")
    /\ arg.text = Str("so Happy")
    /\ arg.reactions = Dict([like |-> Num(6), love |-> Num(4)])
    /\ out = SetList({Str("joy"), Str("love")})

-----------------------------------------------------------------------------
(* The shape of the emitted documents *)

CanonicalFields ==
    {"platform", "platform_id", "content", "author", "timestamp", "metrics",
     "hashtags", "mentions", "sentiment", "emotions", "raw_data"}

\* C24: every document a parser returns has platform, platform_id, content,
\* author, timestamp, metrics, hashtags, mentions, sentiment, emotions and
\* raw_data among its top-level keys, and its platform is the tag of the
\* parser that produced it.
C24_CanonicalTopLevelFields ==
    \A doc \in Emitted :
        /\ doc.t = "dict"
        /\ CanonicalFields \subseteq DOMAIN doc.v
        /\ D(doc, "platform") = Str(platform)

\* the (platform, platform_id) pair of a document
IdPair(doc) == <<D(Source(doc), "platform"), D(Source(doc), "platform_id")>>

\* C25: in the list one parser call returns, no two documents have the
\* same non-empty (platform, platform_id) pair, also when the raw input
\* holds the same item more than once.
C25_IdPairsAreUnique ==
    (pc = "done" /\ call \in Parsers /\ out.t = "list") =>
        \A i, j \in 1..Len(out.v) :
            (i < j /\ Truthy(D(Source(out.v[i]), "platform_id")))
                => IdPair(out.v[i]) # IdPair(out.v[j])

-----------------------------------------------------------------------------
(* The HTTP front end *)

SearchEndpointNames == {SearchEndpoints[p] : p \in PlatformSet}

\* the tag of a returned document, at its top level or under _source
TagOf(doc) ==
    IF HasKey(doc, "source_socmed") THEN doc.v["source_socmed"]
    ELSE D(D(doc, "_source"), "source_socmed")

\* a mapping without one of its keys
Without(x, k) == Dict([j \in DOMAIN x.v \ {k} |-> x.v[j]])

\* a returned document with its tag taken away
Untagged(doc) ==
    IF HasKey(doc, "source_socmed") THEN Without(doc, "source_socmed")
    ELSE IF HasKey(D(doc, "_source"), "source_socmed")
    THEN SetItem(doc, "_source", Without(doc.v["_source"], "source_socmed"))
    ELSE doc

\* the response is a success that returns the parsed documents, each
\* tagged with the platform and otherwise unchanged
TagsEvery(parsed) ==
    (parsed.t = "list" /\ Len(parsed.v) > 0) =>
        /\ out.v.status_code = 200
        /\ out.v.body.status = "success"
        /\ Len(out.v.body.data.v.parsed_documents.v) = Len(parsed.v)
        /\ \A i \in 1..Len(parsed.v) :
               /\ TagOf(out.v.body.data.v.parsed_documents.v[i]) = Str(platform)
               /\ Untagged(out.v.body.data.v.parsed_documents.v[i]) = parsed.v[i]

\* C26: a request to a per-platform search endpoint whose fetch succeeds
\* and whose parser returns one or more documents ends with a success
\* response in which every document is tagged source_socmed = the platform
\* and is otherwise the document the parser returned.
C26_SearchTagsEveryDocument ==
    (pc = "done" /\ call \in SearchEndpointNames /\ ~IsRaise(raw)) =>
        TagsEvery(RunParser(platform, raw))

\* C28: a request to get_parsed_data with a platform name outside the five
\* supported ones is answered with status 400 and the detail 'Unsupported
\* platform', and no fetch and no parser is called.
C28_UnsupportedPlatformIs400 ==
    (Done("get_parsed_data") /\ Lower(platform) \notin PlatformSet) =>
        /\ trace = <<>>
        /\ out.v.status_code = 400
        /\ Contains(out.v.detail.v, "Unsupported platform")

-----------------------------------------------------------------------------
(* The selection of the extractors *)

\* the elements of a list in their order, nothing for any other value
ListOf(x) == IF x.t = "list" THEN x.v ELSE <<>>

RECURSIVE Concat(_)
Concat(seqs) == IF seqs = <<>> THEN <<>> ELSE Head(seqs) \o Concat(Tail(seqs))

\* the field k of every element of a sequence
Fields(seq, k) == [i \in 1..Len(seq) |-> D(seq[i], k)]

FbSelected(data) ==
    SelectSeq(ListOf(D(D(data, "data"), "results")),
              LAMBDA e : IsStr(D(e, "type"), "post"))

TkSelected(data) ==
    Fields(SelectSeq(ListOf(D(D(data, "data"), "data")),
                     LAMBDA e : /\ D(e, "type").t \in {"num", "bool"}
                                /\ PyEq(D(e, "type"), Num(1))
                                /\ Truthy(D(e, "item"))),
           "item")

YtSelected(data) ==
    Fields(SelectSeq(ListOf(D(D(data, "data"), "contents")),
                     LAMBDA e : /\ IsStr(D(e, "type"), "video")
                                /\ Truthy(D(e, "video"))),
           "video")

\* the entries of the instructions of type TimelineAddEntries
TwEntriesOf(data) ==
    LET instructions ==
            SelectSeq(ListOf(D(D(D(D(data, "data"), "result"), "timeline"),
                               "instructions")),
                      LAMBDA i : IsStr(D(i, "type"), "TimelineAddEntries"))
    IN  Concat([k \in 1..Len(instructions) |->
                   ListOf(D(instructions[k], "entries"))])

\* the tweets of the item contents of type TimelineTweet that have a
\* non-empty result
TweetsOf(itemContents) ==
    Fields(Fields(SelectSeq(itemContents,
                            LAMBDA ic : /\ IsStr(D(ic, "itemType"), "TimelineTweet")
                                        /\ Truthy(D(D(ic, "tweet_results"),
                                                    "result"))),
                  "tweet_results"),
           "result")

\* the tweets of the entries that are single timeline items
TwSelected(data) ==
    TweetsOf(Fields(Fields(SelectSeq(TwEntriesOf(data),
                                 LAMBDA e : IsStr(D(D(e, "content"), "entryType"),
                                                  "TimelineTimelineItem")),
                           "content"),
                    "itemContent"))

Selected(p, data) ==
    CASE p = "twitter" -> TwSelected(data)
      [] p = "tiktok" -> TkSelected(data)
      [] p = "facebook" -> FbSelected(data)
      [] p = "youtube" -> YtSelected(data)

\* C27: the facebook, tiktok, youtube and twitter extractors return, in
\* source order, exactly the entries their predicate selects: facebook
\* entries of type 'post'; tiktok entries of type 1 with a non-empty item;
\* youtube entries of type 'video' with a non-empty video; twitter tweets
\* with a non-empty result and itemType 'TimelineTweet' inside
\* TimelineAddEntries instructions; entries of any other type and module
\* entries contribute nothing.
C27_ExtractorsSelectByPredicate ==
    (pc = "done" /\ call \in Extractors /\ platform # "instagram") =>
        out = List(Selected(platform, raw))

-----------------------------------------------------------------------------
(* The report of a batch without documents *)

\* C29: most_active_platform is None only when the mapping has no platform;
\* when the mapping has platforms and none of them has a document,
\* most_active_platform is the first platform of the mapping,
\* platforms_processed is 0 and total_documents is 0.
C29_MostActiveNoneOnlyWithoutPlatforms ==
    Reported =>
        /\ (out.v.summary.most_active_platform = Null) <=> (Len(all_results) = 0)
        /\ (/\ Len(all_results) > 0
            /\ \A i \in 1..Len(all_results) : DocumentCount(i) = 0)
               => /\ out.v.summary.most_active_platform = Str(all_results[1][1])
                  /\ out.v.summary.platforms_processed = 0
                  /\ out.v.total_documents = 0

C29_Witness ==
    /\ Reported
    /\ Len(all_results) = 3
    /\ \A i \in 1..Len(all_results) : DocumentCount(i) = 0
    /\ out.v.summary.most_active_platform = Str(all_results[1][1])
    /\ out.v.summary.platforms_processed = 0

-----------------------------------------------------------------------------
(* The layout keys of a media grid section *)

\* the non-empty media of a sequence of grid items
MediaOf(items) ==
    Fields(SelectSeq(items, LAMBDA item : Truthy(D(item, "media"))), "media")

\* what a section contributes: the media under the first of the keys
\* one_by_two_item, two_by_two_items, medias that its layout has
Chosen(section) ==
    LET layout_content == D(section, "layout_content")
    IN  IF HasKey(layout_content, "one_by_two_item")
        THEN MediaOf(ListOf(D(D(D(layout_content, "one_by_two_item"), "clips"),
                              "items")))
        ELSE IF HasKey(layout_content, "two_by_two_items")
        THEN MediaOf(ListOf(D(layout_content, "two_by_two_items")))
        ELSE ListOf(D(layout_content, "medias"))

GridSections(data) == ListOf(D(D(D(data, "data"), "media_grid"), "sections"))

\* every section, its layout and the items under its first layout key are
\* what the walk expects: mappings, and lists where it iterates
WalkableSection(section) ==
    LET layout_content == D(section, "layout_content")
        clips == D(D(layout_content, "one_by_two_item"), "clips")
    IN  /\ section.t = "dict"
        /\ HasKey(section, "layout_content") => layout_content.t = "dict"
        /\ IF HasKey(layout_content, "one_by_two_item")
           THEN /\ D(layout_content, "one_by_two_item").t = "dict"
                /\ HasKey(D(layout_content, "one_by_two_item"), "clips")
                       => clips.t = "dict"
                /\ HasKey(clips, "items") => D(clips, "items").t = "list"
                /\ \A item \in Elems(D(clips, "items")) : item.t = "dict"
           ELSE IF HasKey(layout_content, "two_by_two_items")
           THEN /\ D(layout_content, "two_by_two_items").t = "list"
                /\ \A item \in Elems(D(layout_content, "two_by_two_items")) :
                       item.t = "dict"
           ELSE HasKey(layout_content, "medias")
                    => D(layout_content, "medias").t = "list"

IsPrefix(a, b) == Len(a) <= Len(b) /\ SubSeq(b, 1, Len(a)) = a

\* C30: extract_media_from_grid takes from each section the media of at
\* most one layout key, the first of one_by_two_item, two_by_two_items,
\* medias that the section has: a section with one_by_two_item gives only
\* its clips items even when it has medias too, empty media under the
\* first two keys are skipped, and the entries under medias are taken
\* unfiltered.
C30_OneLayoutKeyPerSection ==
    Done("extract_media_from_grid") =>
        LET sections == GridSections(raw)
            chosen == Concat([i \in 1..Len(sections) |-> Chosen(sections[i])])
        IN  /\ out.t = "list"
            /\ IsPrefix(out.v, chosen)
            /\ (\A i \in 1..Len(sections) : WalkableSection(sections[i]))
                   => out.v = chosen

C30_Witness ==
    /\ Done("extract_media_from_grid")
    /\ Len(GridSections(raw)) = 2
    /\ \A i \in 1..2 : WalkableSection(GridSections(raw)[i])
    /\ HasKey(D(GridSections(raw)[1], "layout_content"), "one_by_two_item")
    /\ HasKey(D(GridSections(raw)[1], "layout_content"), "medias")
    /\ HasKey(D(GridSections(raw)[2], "layout_content"), "medias")
    /\ out = List(<<Dict(IgMedia("m7")),
                    Dict(IgMedia("m5") @@ [caption |-> Dict([text |-> Str("hi")])]),
                    Str("m6"), EmptyDict>>)

====
